---- MODULE Spec2Model ----
(***************************************************************************)
(* Model of the slide-redact redaction engine.                             *)
(*                                                                         *)
(*  - Region store and undo/redo history: the useRegions hook.  The hook   *)
(*    keeps the collection in React state and the two stacks in refs; the  *)
(*    stacks are mutated inside the state updater functions, which React   *)
(*    runs either eagerly inside setRegions (no update pending) or later,  *)
(*    when it renders the component.                                       *)
(*    SpecStrict is the store under React's StrictMode, which invokes an   *)
(*    updater twice.                                                       *)
(*  - Raster effects and export: applyPixelation, applySolidMask and       *)
(*    processImage, on a canvas of SurfaceW x SurfaceH RGBA pixels.        *)
(*  - Pointer drags: the handlers of RegionSelector; SpecEditor adds the   *)
(*    apply of the inline editor, which disables the selector.             *)
(*  - Apply and cancel: handleApply of the inline editor, the messages of  *)
(*    the dialog editor and handleDialogMessage of the task pane.          *)
(*  - Preview scheduling, zoom and image loading: useCanvasRenderer.       *)
(*  - The editing session around the decode of its image: SpecSession.     *)
(*  - Store handlers called back to back, before the hook renders.         *)
(*  - Orphaned media: getReferencedMedia and cleanOrphanedMedia.           *)
(*  - Effect controls of the editor: the block size slider (SpecControls). *)
(*  - The block loops of applyPixelation, step by step (SpecLoop).         *)
(*  - The task pane and its dialog: handleSelectImage and the image an     *)
(*    apply-regions message is applied to (SpecPane).                      *)
(*  - Office: replaceImageShape (SpecShape) and getFileAsync (SpecFile).   *)
(*  - useSlideImages with overlapping calls of refresh (SpecRefresh).      *)
(*  - The load effect with several decodes in flight (SpecDecode).         *)
(*  - secureExport (SpecSecure) and the busy flags of the apply and of     *)
(*    the export panel (SpecBusy, SpecBusyFair).                           *)
(*                                                                         *)
(* Each part has its own specification; the variables of the other parts   *)
(* stay at their initial values.                                           *)
(*                                                                         *)
(* Lengths are fixed-point numbers with Unit sub-steps per pixel, so that  *)
(* Math.round is a real conversion.                                        *)
(***************************************************************************)
EXTENDS Integers, Sequences, FiniteSets, TLC

\* ------------------------------------------------------------------ bounds
Unit == 2
MaxIds == 2
MaxDepth == 2
SurfaceW == 5
SurfaceH == 4
MaxExportRegions == 3
MaxVersion == 3
ZoomRes == 2
ViewW == 4
ViewH == 3
MaxBatch == 2

\* ------------------------------------------------------- program constants
MinRegionSize == 2
MinBlockSize == 4
MaxBlockSize == 50
ZoomMinHalves == 1
ZoomMax == 5
ZoomStepHalves == 1
ZoomDefault == 1

VARIABLES
  regions,      \* useState<BlurRegion[]>: the collection as last rendered
  undoStack,    \* undoStack.current
  redoStack,    \* redoStack.current
  queue,        \* state updates handed to setRegions and not yet rendered
  canUndo,      \* derived flag, computed when the hook renders
  canRedo,      \* derived flag, computed when the hook renders
  nextId,       \* generateId(): ids issued so far + 1
  call,         \* the handler invoked last: its name, arguments, result and
                \* the store as it was when the handler was entered
  onlyMutations, \* no undo and no redo has been invoked so far
  source,       \* processImage: decoded pixels of the image being exported
  jobRegions,   \* processImage: the regions argument
  canvas,       \* processImage: pixels of the canvas
  idx,          \* processImage: number of regions applied so far
  pc,           \* processImage: position in the function
  result,       \* processImage: pixel data of the returned PNG
  isDrawing,    \* RegionSelector: useState(false)
  startRef,     \* RegionSelector: startRef.current
  drawState,    \* editor: the in-progress rectangle, or NoDraw for null
  ev,           \* the pointer event handled last, and the state before it
  flow,         \* which editor hosts the session: "inline" or "dialog"
  sessionOpen,  \* the editor component of the session is mounted
  applying,     \* useState(false): an apply is in progress
  error,        \* the message shown to the user, "" for null
  applyPc,      \* position in the apply handler
  applyLog,     \* the apply that ended last: its outcome and the session
                \* as it was when the user pressed Apply
  sent,         \* the dialog handler that ran last and the message it
                \* handed to messageParent
  cancelled,    \* the user has cancelled the session
  document,     \* the picture on the slide: "original" or "replaced"
  animFrameRef, \* animFrameRef.current: the handle requested last
  frames,       \* animation-frame callbacks requested and not yet run
  frameSeq,     \* the handle requestAnimationFrame returns next
  stateSeq,     \* version of the session state held by regionsRef.current
                \* and drawStateRef.current
  effectDue,    \* the component has rendered and its effects have not run
  imageReady,   \* imageRef.current holds the decoded image
  painted,      \* the renderPreview call made last
  base64,       \* the hook's base64 argument: an image number, 0 for null
  loadPc,       \* the promise loadImage(base64) returned
  imageSize,    \* useState: the natural size of the decoded image, or null
  zoom,         \* useState(1), in ZoomUnit steps per 1.0
  canvasW,      \* laid-out width of the canvas, 0 while it is hidden
  canvasH,      \* laid-out height of the canvas
  scrollLeft,   \* container.scrollLeft
  scrollTop,    \* container.scrollTop
  zoomAnchor,   \* zoomAnchorRef.current
  resizeDue,    \* the handler whose state change the resize effect has
                \* still to follow, "none" when no effect is pending
  zoomCall,     \* the zoom handler invoked last and the level it asked for
  batch,        \* the handlers called since the hook last rendered with no
                \* update pending, and the store as the first of them found it
  currentBlockSize, \* editor: useState(10), the block size the controls show
  loopPc,       \* applyPixelation: "idle", "loop" inside the block loops, "done"
  loopArgs,     \* applyPixelation: cw, ch and blockSize of the call, and its caller
  loopX,       \* applyPixelation: the loop variable blockX
  loopY,       \* applyPixelation: the loop variable blockY
  selectedImageRef, \* TaskpaneApp: selectedImageRef.current, an image id or 0 for null
  dialogRef,    \* TaskpaneApp: dialogRef.current holds a dialog
  storage,      \* localStorage item slide-redact-dialog-image: an image id, 0 when unset
  dialog,       \* the editor dialog: whether it is open and the image it has loaded
  paneApply,    \* the apply started last from a dialog message: the image processed and the image the dialog showed
  slideShapes,  \* the shapes on the selected slide
  shapeId,      \* replaceImageShape: the shapeId argument
  oldGeometry,  \* the picture as it was when replaceImageShape was called, NoShape if the slide has no such shape
  loaded,       \* replaceImageShape: left, top, width, height read from oldShape
  replacePc,    \* replaceImageShape: the batch waiting for context.sync(), or "idle", "done", "failed"
  filePc,       \* getFileAsync: "idle", "opening", "slice", "resolved", "rejected"
  sliceCount,   \* file.sliceCount
  requested,    \* the indexes passed to file.getSliceAsync, in call order
  slices,       \* getFileAsync: the slices array
  served,       \* the data the host delivered, in delivery order
  closeCalls,   \* number of calls of file.closeAsync
  settleCalls,  \* number of calls of resolve or reject
  fileResult,   \* the value the promise was resolved with
  images,       \* useSlideImages: images
  loading,      \* useSlideImages: loading
  imageError,   \* useSlideImages: error
  started,      \* number of calls of refresh so far
  inFlight,     \* the calls of refresh waiting for getSlideImages
  outcomes,     \* what getSlideImages gave each call of refresh
  decodes,      \* the calls of loadImage not settled yet: number, source and the cancelled flag of their effect
  decodeCount,  \* number of calls of loadImage so far
  imageRef,     \* imageRef.current: the source of the decoded image, 0 for null
  secureFile,   \* secureExport: the first bytes of the file, whether JSZip can read it as an archive, and options.stripMetadata
  securePc,     \* secureExport: the await it is at, or "idle", "done", "failed"
  stages,       \* the strings passed to onProgress, in call order
  cleaned,      \* cleanOrphanedMedia has returned
  stripped,     \* stripMetadata has returned
  downloads,    \* number of calls of downloadBlob
  exporting,    \* SecureExport: useState(false)
  exportError,  \* SecureExport: error, "" for null
  exportResult, \* SecureExport: result is set
  exportRuns,   \* the calls of processFile waiting for secureExport
  exportStarted, \* number of calls of processFile that reached secureExport
  exportOutcome, \* how the last call of processFile to finish ended
  zipFiles,     \* cleanOrphanedMedia: names of the files in the zip
  relsText,     \* the relationship records in each .rels file of the zip
  zipBefore,    \* names of the files in the zip when the function was called
  referencedMedia, \* getReferencedMedia: the set being collected
  relsLeft,     \* getReferencedMedia: .rels files not yet read
  mediaLeft,    \* cleanOrphanedMedia: files of allMedia not yet visited
  orphanedFiles, \* cleanOrphanedMedia: the list being collected
  cleanPc,      \* cleanOrphanedMedia: position in the function
  cleanResult   \* cleanOrphanedMedia: the value returned

storeVars == <<regions, undoStack, redoStack, queue, canUndo, canRedo, nextId, call,
               onlyMutations>>
exportVars == <<source, jobRegions, canvas, idx, pc, result>>
dragVars == <<isDrawing, startRef, drawState, ev>>
applyVars == <<flow, sessionOpen, applying, error, applyPc, applyLog, sent, cancelled,
               document>>
frameVars == <<animFrameRef, frames, frameSeq, stateSeq, effectDue, imageReady, painted>>
viewVars == <<base64, loadPc, imageSize, zoom, canvasW, canvasH, scrollLeft, scrollTop,
              zoomAnchor, resizeDue, zoomCall>>
controlVars == <<currentBlockSize>>
loopVars == <<loopPc, loopArgs, loopX, loopY>>
paneVars == <<selectedImageRef, dialogRef, storage, dialog, paneApply>>
shapeVars == <<slideShapes, shapeId, oldGeometry, loaded, replacePc>>
fileVars == <<filePc, sliceCount, requested, slices, served, closeCalls, settleCalls, fileResult>>
refreshVars == <<images, loading, imageError, started, inFlight, outcomes>>
decodeVars == <<decodes, decodeCount, imageRef>>
secureVars == <<secureFile, securePc, stages, cleaned, stripped, downloads>>
exporterVars == <<exporting, exportError, exportResult, exportRuns, exportStarted, exportOutcome>>
vars == <<regions, undoStack, redoStack, queue, canUndo, canRedo, nextId, call,
          onlyMutations,
          source, jobRegions, canvas, idx, pc, result,
          isDrawing, startRef, drawState, ev,
          flow, sessionOpen, applying, error, applyPc, applyLog, sent, cancelled, document,
          animFrameRef, frames, frameSeq, stateSeq, effectDue, imageReady, painted,
          base64, loadPc, imageSize, zoom, canvasW, canvasH, scrollLeft, scrollTop,
          zoomAnchor, resizeDue, zoomCall, batch,
          currentBlockSize,
          loopPc, loopArgs, loopX, loopY,
          selectedImageRef, dialogRef, storage, dialog, paneApply,
          slideShapes, shapeId, oldGeometry, loaded, replacePc,
          filePc, sliceCount, requested, slices, served, closeCalls, settleCalls, fileResult,
          images, loading, imageError, started, inFlight, outcomes,
          decodes, decodeCount, imageRef,
          secureFile, securePc, stages, cleaned, stripped, downloads,
          exporting, exportError, exportResult, exportRuns, exportStarted, exportOutcome,
          zipFiles, relsText, zipBefore, referencedMedia, relsLeft, mediaLeft,
          orphanedFiles, cleanPc, cleanResult>>

\* What the actions of one part of the program leave alone
cleanVars == <<zipFiles, relsText, zipBefore, referencedMedia, relsLeft, mediaLeft,
               orphanedFiles, cleanPc, cleanResult>>
outsideStore == <<exportVars, dragVars, applyVars, frameVars, viewVars, batch, cleanVars, controlVars, loopVars, paneVars, shapeVars, fileVars, refreshVars, decodeVars, secureVars, exporterVars>>
outsideExport == <<storeVars, dragVars, applyVars, frameVars, viewVars, batch, cleanVars, controlVars, loopVars, paneVars, shapeVars, fileVars, refreshVars, decodeVars, secureVars, exporterVars>>
outsideDrag == <<exportVars, applyVars, frameVars, viewVars, batch, cleanVars, controlVars, loopVars, paneVars, shapeVars, fileVars, refreshVars, decodeVars, secureVars, exporterVars>>
outsideFrame == <<storeVars, exportVars, dragVars, applyVars, viewVars, batch, cleanVars, controlVars, loopVars, paneVars, shapeVars, fileVars, refreshVars, decodeVars, secureVars, exporterVars>>
outsideView == <<storeVars, exportVars, dragVars, applyVars, frameVars, batch, cleanVars, controlVars, loopVars, paneVars, shapeVars, fileVars, refreshVars, decodeVars, secureVars, exporterVars>>
outsideViewDecode == <<storeVars, exportVars, dragVars, applyVars, frameVars, batch, cleanVars, controlVars, loopVars, paneVars, shapeVars, fileVars, refreshVars, secureVars, exporterVars>>
outsideApply == <<exportVars, dragVars, frameVars, viewVars, batch, cleanVars, controlVars, loopVars, paneVars, shapeVars, fileVars, refreshVars, decodeVars, secureVars, exporterVars>>
outsideBatch == <<exportVars, dragVars, applyVars, frameVars, viewVars, cleanVars, controlVars, loopVars, paneVars, shapeVars, fileVars, refreshVars, decodeVars, secureVars, exporterVars>>
outsideClean == <<storeVars, exportVars, dragVars, applyVars, frameVars, viewVars, batch, controlVars, loopVars, paneVars, shapeVars, fileVars, refreshVars, decodeVars, secureVars, exporterVars>>
outsideControls == <<storeVars, exportVars, dragVars, applyVars, frameVars, viewVars, batch, cleanVars, loopVars, paneVars, shapeVars, fileVars, refreshVars, decodeVars, secureVars, exporterVars>>
outsideLoop == <<storeVars, exportVars, dragVars, applyVars, frameVars, viewVars, batch, cleanVars, controlVars, paneVars, shapeVars, fileVars, refreshVars, decodeVars, secureVars, exporterVars>>
outsidePane == <<storeVars, exportVars, dragVars, applyVars, frameVars, viewVars, batch, cleanVars, controlVars, loopVars, shapeVars, fileVars, refreshVars, decodeVars, secureVars, exporterVars>>

\* ----------------------------------------------------------------- numbers
Px(n) == n * Unit

Abs(v) == IF v < 0 THEN -v ELSE v

Min(a, b) == IF a < b THEN a ELSE b

Max(a, b) == IF a > b THEN a ELSE b

\* floor(a / b) for b > 0, also for negative a
FloorDiv(a, b) == IF a >= 0 THEN a \div b ELSE -((-a + b - 1) \div b)

\* Math.round of a fixed-point length, result in whole pixels:
\* floor(v + 0.5), halves go towards +infinity
Round(v) == FloorDiv(2 * v + Unit, 2 * Unit)

\* Math.round(s / n) for integers s >= 0, n > 0
RoundDiv(s, n) == (2 * s + n) \div (2 * n)

Front(s) == SubSeq(s, 1, Len(s) - 1)

Last(s) == s[Len(s)]

SetMin(S) == CHOOSE m \in S : \A n \in S : m <= n

\* ============================================================= region store
NoArgs == [x |-> 0, y |-> 0, width |-> 0, height |-> 0, id |-> 0]

Store == [regions |-> regions, undoStack |-> undoStack, redoStack |-> redoStack,
          canUndo |-> canUndo, canRedo |-> canRedo]

generateId == nextId

\* pushUndo that forgets to clear the redo stack
pushUndo_KeepsRedo(current, refs) ==
  [undoStack |-> Append(refs.undoStack, current), redoStack |-> refs.redoStack]

\* pushUndo(current): push onto the undo stack, clear the redo stack
pushUndo(current, refs) ==
  [undoStack |-> Append(refs.undoStack, current), redoStack |-> <<>>]

\* Normalisation that takes the absolute size but keeps the anchor
Normalize_NoFlip(x, y, width, height) ==
  [x |-> x, y |-> y, width |-> Abs(width), height |-> Abs(height)]

\* addRegion, lines 28-44: normalisation, size check and the new region
Normalize(x, y, width, height) ==
  [x |-> IF width < 0 THEN x + width ELSE x,
   y |-> IF height < 0 THEN y + height ELSE y,
   width |-> Abs(width),
   height |-> Abs(height)]

\* Size check that rejects only when both sides are too small
Rejected_BothSmall(n) == n.width < Px(MinRegionSize) /\ n.height < Px(MinRegionSize)

Rejected(n) == n.width < Px(MinRegionSize) \/ n.height < Px(MinRegionSize)

NewRegion(id, n, mode, blockSize, fillColor) ==
  [id |-> id, x |-> n.x, y |-> n.y, width |-> n.width, height |-> n.height,
   mode |-> mode, blockSize |-> blockSize, fillColor |-> fillColor]

\* A removal that cuts the collection at the first region with the id
Filter_CutsAtMatch(s, id) ==
  IF \E i \in 1..Len(s) : s[i].id = id
  THEN SubSeq(s, 1, SetMin({ i \in 1..Len(s) : s[i].id = id }) - 1)
  ELSE s

RECURSIVE Filter(_, _)
\* prev.filter((r) => r.id !== id)
Filter(s, id) ==
  IF s = <<>> THEN <<>>
  ELSE IF s[1].id # id THEN <<s[1]>> \o Filter(Tail(s), id)
       ELSE Filter(Tail(s), id)

\* The updater functions handed to setRegions
NoRegion == NewRegion(0, NoArgs, "solid", 0, "")

AddUpdater(region) == [kind |-> "add", region |-> region, id |-> 0, snap |-> <<>>]

RemoveUpdater(id) == [kind |-> "remove", region |-> NoRegion, id |-> id, snap |-> <<>>]

ClearUpdater == [kind |-> "clear", region |-> NoRegion, id |-> 0, snap |-> <<>>]

UndoUpdater(prev) == [kind |-> "undo", region |-> NoRegion, id |-> 0, snap |-> prev]

RedoUpdater(next) == [kind |-> "redo", region |-> NoRegion, id |-> 0, snap |-> next]

\* Running updater u on the state prev, with the refs as they are at that
\* moment: the returned state and the refs after the updater's side effects
RunUpdater(u, prev, refs) ==
  CASE u.kind = "add" ->
         [state |-> Append(prev, u.region), refs |-> pushUndo(prev, refs)]
    [] u.kind = "remove" ->
         [state |-> Filter(prev, u.id), refs |-> pushUndo(prev, refs)]
    [] u.kind = "clear" ->
         [state |-> <<>>,
          refs |-> IF Len(prev) > 0 THEN pushUndo(prev, refs) ELSE refs]
    [] u.kind = "undo" ->
         [state |-> u.snap,
          refs |-> [refs EXCEPT !.redoStack = Append(@, prev)]]
    [] u.kind = "redo" ->
         [state |-> u.snap,
          refs |-> [refs EXCEPT !.undoStack = Append(@, prev)]]

Refs(u, r) == [undoStack |-> u, redoStack |-> r]

\* setRegions(updater) while the rendered state is cur.  React runs the
\* updater at once when no update is pending and it chooses to compute the
\* state eagerly; otherwise the updater waits in the queue until the
\* component renders.
SetRegions(u, eager, q, cur, refs) ==
  IF eager /\ q = <<>>
  THEN LET r == RunUpdater(u, cur, refs)
       IN [queue |-> <<[u |-> u, hasEagerState |-> TRUE, eagerState |-> r.state]>>,
           refs |-> r.refs]
  ELSE [queue |-> Append(q, [u |-> u, hasEagerState |-> FALSE, eagerState |-> <<>>]),
        refs |-> refs]

RECURSIVE ProcessQueue(_, _, _)
\* The render of the hook: every queued update in order
ProcessQueue(q, state, refs) ==
  IF q = <<>> THEN [state |-> state, refs |-> refs]
  ELSE IF q[1].hasEagerState
       THEN ProcessQueue(Tail(q), q[1].eagerState, refs)
       ELSE LET r == RunUpdater(q[1].u, state, refs)
            IN ProcessQueue(Tail(q), r.state, r.refs)

\* Bodies of the handlers, as functions of the rendered state cur, the
\* pending queue q and the refs: the queue and the refs when they return
clearRegions(eager, q, cur, refs) ==
  LET s == SetRegions(ClearUpdater, eager, q, cur, refs)
  IN [queue |-> s.queue, refs |-> Refs(<<>>, <<>>)]

\* undo that reads the top snapshot without popping it
undo_KeepsTop(eager, q, cur, refs) ==
  IF refs.undoStack = <<>> THEN [queue |-> q, refs |-> refs]
  ELSE SetRegions(UndoUpdater(Last(refs.undoStack)), eager, q, cur, refs)

undo(eager, q, cur, refs) ==
  IF refs.undoStack = <<>> THEN [queue |-> q, refs |-> refs]
  ELSE SetRegions(UndoUpdater(Last(refs.undoStack)), eager, q, cur,
                  Refs(Front(refs.undoStack), refs.redoStack))

redo(eager, q, cur, refs) ==
  IF refs.redoStack = <<>> THEN [queue |-> q, refs |-> refs]
  ELSE SetRegions(RedoUpdater(Last(refs.redoStack)), eager, q, cur,
                  Refs(refs.undoStack, Front(refs.redoStack)))

\* Inputs of addRegion: (x, y, width, height, mode, blockSize, fillColor),
\* lengths in Unit steps
AddInputs ==
  { <<Px(10), Px(10), -Px(20), -Px(20), "pixelate", 10, "#000000">>,
    <<0, 0, Px(2), Px(3), "solid", MinBlockSize, "#ff0000">>,
    <<Px(1) + Unit \div 2, Px(4), -(Px(2) + Unit \div 2), Px(2), "pixelate", MinBlockSize, "#000000">>,
    <<0, 0, Px(1), Px(1), "pixelate", MinBlockSize, "#000000">>,
    <<Px(2), Px(2), -(Px(2) - 1), Px(4), "solid", MinBlockSize, "#ff0000">> }

\* Inputs of removeRegion: the ids in the collection and one id not in it
RemoveInputs == { regions[i].id : i \in 1..Len(regions) } \cup { nextId }

\* addRegion (lines 18-52) called with the queue q, the rendered collection
\* cur and the stacks refs; id is the value generateId() returns
addRegion(x, y, width, height, mode, blockSize, fillColor, id, eager, q, cur, refs) ==
  LET n == Normalize(x, y, width, height)
  IN IF Rejected(n)
     THEN [queue |-> q, refs |-> refs, ret |-> 0]
     ELSE LET s == SetRegions(AddUpdater(NewRegion(id, n, mode, blockSize, fillColor)),
                              eager, q, cur, refs)
          IN [queue |-> s.queue, refs |-> s.refs, ret |-> id]

\* removeRegion (lines 54-62)
removeRegion(id, eager, q, cur, refs) ==
  SetRegions(RemoveUpdater(id), eager, q, cur, refs)

\* A call of addRegion from an event handler, on the variables of the store
CallAddRegion(x, y, width, height, mode, blockSize, fillColor, eager) ==
  /\ queue = <<>>
  /\ LET a == addRegion(x, y, width, height, mode, blockSize, fillColor, generateId,
                        eager, queue, regions, Refs(undoStack, redoStack))
         args == [x |-> x, y |-> y, width |-> width, height |-> height, id |-> 0]
     IN /\ a.ret # 0 => (nextId <= MaxIds /\ Len(undoStack) < MaxDepth)
        /\ queue' = a.queue
        /\ undoStack' = a.refs.undoStack
        /\ redoStack' = a.refs.redoStack
        /\ nextId' = IF a.ret # 0 THEN nextId + 1 ELSE nextId
        /\ call' = [op |-> "addRegion", args |-> args, ret |-> a.ret, pre |-> Store]
  /\ UNCHANGED <<regions, canUndo, canRedo, onlyMutations>>

AddRegion(x, y, width, height, mode, blockSize, fillColor, eager) ==
  /\ CallAddRegion(x, y, width, height, mode, blockSize, fillColor, eager)
  /\ UNCHANGED outsideStore

RemoveRegion(id, eager) ==
  /\ queue = <<>>
  /\ Len(undoStack) < MaxDepth
  /\ LET s == removeRegion(id, eager, queue, regions, Refs(undoStack, redoStack))
     IN /\ queue' = s.queue
        /\ undoStack' = s.refs.undoStack
        /\ redoStack' = s.refs.redoStack
  /\ call' = [op |-> "removeRegion", args |-> [NoArgs EXCEPT !.id = id], ret |-> 0,
              pre |-> Store]
  /\ UNCHANGED <<regions, canUndo, canRedo, nextId, onlyMutations>>
  /\ UNCHANGED outsideStore

ClearRegions(eager) ==
  /\ queue = <<>>
  /\ LET s == clearRegions(eager, queue, regions, Refs(undoStack, redoStack))
     IN /\ queue' = s.queue
        /\ undoStack' = s.refs.undoStack
        /\ redoStack' = s.refs.redoStack
  /\ call' = [op |-> "clearRegions", args |-> NoArgs, ret |-> 0, pre |-> Store]
  /\ UNCHANGED <<regions, canUndo, canRedo, nextId, onlyMutations>>
  /\ UNCHANGED outsideStore

Undo(eager) ==
  /\ queue = <<>>
  /\ LET s == undo(eager, queue, regions, Refs(undoStack, redoStack))
     IN /\ queue' = s.queue
        /\ undoStack' = s.refs.undoStack
        /\ redoStack' = s.refs.redoStack
  /\ call' = [op |-> "undo", args |-> NoArgs, ret |-> 0, pre |-> Store]
  /\ onlyMutations' = FALSE
  /\ UNCHANGED <<regions, canUndo, canRedo, nextId>>
  /\ UNCHANGED outsideStore

Redo(eager) ==
  /\ queue = <<>>
  /\ LET s == redo(eager, queue, regions, Refs(undoStack, redoStack))
     IN /\ queue' = s.queue
        /\ undoStack' = s.refs.undoStack
        /\ redoStack' = s.refs.redoStack
  /\ call' = [op |-> "redo", args |-> NoArgs, ret |-> 0, pre |-> Store]
  /\ onlyMutations' = FALSE
  /\ UNCHANGED <<regions, canUndo, canRedo, nextId>>
  /\ UNCHANGED outsideStore

\* React renders the hook: the queued updates run, then lines 91-92
RenderStore ==
  /\ queue # <<>>
  /\ LET r == ProcessQueue(queue, regions, Refs(undoStack, redoStack))
     IN /\ regions' = r.state
        /\ undoStack' = r.refs.undoStack
        /\ redoStack' = r.refs.redoStack
        /\ canUndo' = (Len(r.refs.undoStack) > 0)
        /\ canRedo' = (Len(r.refs.redoStack) > 0)
  /\ queue' = <<>>
  /\ UNCHANGED <<nextId, call, onlyMutations>>

Render == RenderStore /\ UNCHANGED outsideStore

\* Under StrictMode (editor-main.tsx lines 8-10) React calls an updater
\* function twice for one update, both times with the same state; the side
\* effects of the two calls on the refs add up
InvokeTwice(u, prev, refs) ==
  LET first == RunUpdater(u, prev, refs)
  IN RunUpdater(u, prev, first.refs)

RECURSIVE StrictProcessQueue(_, _, _, _)
\* The render of the hook under StrictMode.  again: whether this React
\* calls the updater of an eagerly computed update once more while
\* rendering (React 19) or not (React 18)
StrictProcessQueue(q, state, refs, again) ==
  IF q = <<>> THEN [state |-> state, refs |-> refs]
  ELSE IF q[1].hasEagerState
       THEN StrictProcessQueue(Tail(q), q[1].eagerState,
                               IF again THEN RunUpdater(q[1].u, state, refs).refs
                               ELSE refs,
                               again)
       ELSE LET r == InvokeTwice(q[1].u, state, refs)
            IN StrictProcessQueue(Tail(q), r.state, r.refs, again)

StrictRender(again) ==
  /\ queue # <<>>
  /\ LET r == StrictProcessQueue(queue, regions, Refs(undoStack, redoStack), again)
     IN /\ regions' = r.state
        /\ undoStack' = r.refs.undoStack
        /\ redoStack' = r.refs.redoStack
        /\ canUndo' = (Len(r.refs.undoStack) > 0)
        /\ canRedo' = (Len(r.refs.redoStack) > 0)
  /\ queue' = <<>>
  /\ UNCHANGED <<nextId, call, onlyMutations>>
  /\ UNCHANGED outsideStore

\* The history kept small enough to explore
StrictBound == Len(undoStack) + Len(redoStack) <= MaxDepth

NoCall == [op |-> "none", args |-> NoArgs, ret |-> 0,
           pre |-> [regions |-> <<>>, undoStack |-> <<>>, redoStack |-> <<>>,
                    canUndo |-> FALSE, canRedo |-> FALSE]]

StoreInit ==
  /\ regions = <<>>
  /\ undoStack = <<>>
  /\ redoStack = <<>>
  /\ queue = <<>>
  /\ canUndo = FALSE
  /\ canRedo = FALSE
  /\ nextId = 1
  /\ call = NoCall
  /\ onlyMutations = TRUE

\* ================================================ raster effects and export
\* Pixel coordinates of a surface of SurfaceW x SurfaceH pixels
Pixels == (0..(SurfaceW - 1)) \X (0..(SurfaceH - 1))

\* A new canvas is transparent black
BlankCanvas == [p \in Pixels |-> <<0, 0, 0, 0>>]

RECURSIVE SumChannel(_, _, _)
\* r += data[i], ... over the cells of one block, for channel c
SumChannel(data, cells, c) ==
  IF cells = {} THEN 0
  ELSE LET i == CHOOSE j \in cells : TRUE
       IN data[i][c] + SumChannel(data, cells \ {i}, c)

\* One block of applyPixelation (lines 28-62): data is the ImageData of
\* cw x ch pixels in row-major order, pixel (px, py) at index py * cw + px
PixelateBlock(data, cw, ch, blockSize, blockX, blockY) ==
  LET bw == Min(blockSize, cw - blockX)
      bh == Min(blockSize, ch - blockY)
      cells == { py * cw + px : px \in blockX..(blockX + bw - 1),
                                py \in blockY..(blockY + bh - 1) }
      count == bw * bh
      avg == [c \in 1..4 |-> RoundDiv(SumChannel(data, cells, c), count)]
  IN [i \in DOMAIN data |-> IF i \in cells THEN avg ELSE data[i]]

RECURSIVE PixelateLoop(_, _, _, _, _, _)
\* The two block loops of applyPixelation (lines 26-64)
PixelateLoop(data, cw, ch, blockSize, blockX, blockY) ==
  IF blockY >= ch THEN data
  ELSE IF blockX >= cw THEN PixelateLoop(data, cw, ch, blockSize, 0, blockY + blockSize)
       ELSE PixelateLoop(PixelateBlock(data, cw, ch, blockSize, blockX, blockY),
                         cw, ch, blockSize, blockX + blockSize, blockY)

\* The rectangle applyPixelation reads and writes (lines 16-19)
ClampRect(region) ==
  LET cx == Max(0, Round(region.x))
      cy == Max(0, Round(region.y))
  IN [cx |-> cx, cy |-> cy,
      cw |-> Min(Round(region.width), SurfaceW - cx),
      ch |-> Min(Round(region.height), SurfaceH - cy)]

\* ctx.getImageData(cx, cy, cw, ch) for a rectangle inside the canvas
GetImageData(cv, cx, cy, cw, ch) ==
  [i \in 0..(cw * ch - 1) |-> cv[<<cx + (i % cw), cy + (i \div cw)>>]]

\* ctx.putImageData(imageData, cx, cy)
PutImageData(cv, data, cx, cy, cw, ch) ==
  [p \in Pixels |->
     IF p[1] >= cx /\ p[1] < cx + cw /\ p[2] >= cy /\ p[2] < cy + ch
     THEN data[(p[2] - cy) * cw + (p[1] - cx)]
     ELSE cv[p]]

applyPixelation(cv, region) ==
  LET c == ClampRect(region)
  IN IF c.cw <= 0 \/ c.ch <= 0 THEN cv
     ELSE PutImageData(cv,
                       PixelateLoop(GetImageData(cv, c.cx, c.cy, c.cw, c.ch),
                                    c.cw, c.ch, region.blockSize, 0, 0),
                       c.cx, c.cy, c.cw, c.ch)

\* ctx.fillStyle = fillColor: the colour a "#rrggbb" string denotes, opaque
ParseColor(fillColor) ==
  CASE fillColor = "#ff0000" -> <<255, 0, 0, 255>>
    [] fillColor = "#000000" -> <<0, 0, 0, 255>>
    [] OTHER -> <<0, 0, 0, 255>>

\* ctx.fillRect(x, y, w, h) with an opaque fill style: the canvas clips the
\* rectangle to its own surface
FillRect(cv, color, x, y, w, h) ==
  [p \in Pixels |->
     IF p[1] >= x /\ p[1] < x + w /\ p[2] >= y /\ p[2] < y + h
     THEN color
     ELSE cv[p]]

applySolidMask(cv, region) ==
  FillRect(cv, ParseColor(region.fillColor),
           Round(region.x), Round(region.y), Round(region.width), Round(region.height))

\* The body of the loop of processImage (lines 107-111)
ApplyRegion(cv, region) ==
  IF region.mode = "pixelate" THEN applyPixelation(cv, region)
  ELSE applySolidMask(cv, region)

\* canvas.toDataURL("image/png"): the pixels of the canvas, row by row
ToPixelData(cv) ==
  [i \in 1..(SurfaceW * SurfaceH) |-> cv[<<(i - 1) % SurfaceW, (i - 1) \div SurfaceW>>]]

\* Source images: decoded pixels, or bytes that do not decode
Images ==
  { [decodable |-> TRUE,
     pixels |-> [p \in Pixels |-> <<(40 * p[1]) % 256, (60 * p[2]) % 256,
                                     (17 * (p[1] + 3 * p[2])) % 256, 255>>]],
    [decodable |-> TRUE,
     pixels |-> [p \in Pixels |-> <<128, 128, 128, 255>>]],
    [decodable |-> TRUE,
     pixels |-> [p \in Pixels |-> <<(50 * p[1]) % 256, 7, 200, (100 + 30 * p[2]) % 256>>]],
    [decodable |-> FALSE, pixels |-> BlankCanvas] }

NoImage == [decodable |-> FALSE, pixels |-> BlankCanvas]

\* Rectangles (x, y, width, height) of regions handed to processImage, in
\* Unit steps, each as addRegion commits it
ExportRects ==
  { <<0, 0, Px(SurfaceW), Px(SurfaceH)>>,
    <<Px(1), Px(1), Px(2), Px(2)>>,
    <<-Px(1), -Px(1), Px(2), Px(2)>>,
    <<Px(SurfaceW - 1), Px(SurfaceH - 1), Px(3), Px(3)>>,
    <<Unit \div 2, Unit \div 2, Px(2) + Unit \div 2, Px(2)>>,
    <<-Px(1), Px(SurfaceH - 2), Px(2), Px(4)>>,
    <<Px(SurfaceW), 0, Px(2), Px(2)>> }

ExportEffects == { <<"pixelate", MinBlockSize, "#000000">>, <<"solid", MinBlockSize, "#ff0000">> }

ExportRegions ==
  { NewRegion(0, Normalize(g[1], g[2], g[3], g[4]), e[1], e[2], e[3]) :
      g \in ExportRects, e \in ExportEffects }

\* The region lists of at most MaxExportRegions regions, ids 1, 2, ...
RegionLists ==
  UNION { { [i \in 1..n |-> [f[i] EXCEPT !.id = i]] : f \in [1..n -> ExportRegions] } :
          n \in 0..MaxExportRegions }

\* An export that never draws the original image on the new canvas
DrawImage_Nothing(cv, img, dx, dy) == cv

\* ctx.drawImage(img, dx, dy) of an image as large as the canvas
DrawImage(cv, img, dx, dy) ==
  [p \in Pixels |->
     IF <<p[1] - dx, p[2] - dy>> \in Pixels THEN img[<<p[1] - dx, p[2] - dy>>]
     ELSE cv[p]]

\* await loadImage(base64) resolves; the canvas gets the size of the image
\* and the image is drawn on it (lines 93-103)
LoadAndDraw ==
  /\ pc = "load"
  /\ source.decodable
  /\ canvas' = DrawImage(BlankCanvas, source.pixels, 0, 0)
  /\ idx' = 0
  /\ pc' = "loop"
  /\ UNCHANGED <<source, jobRegions, result>>
  /\ UNCHANGED outsideExport

\* await loadImage(base64) rejects (img.onerror): processImage rejects
LoadFails ==
  /\ pc = "load"
  /\ ~source.decodable
  /\ pc' = "rejected"
  /\ UNCHANGED <<source, jobRegions, canvas, idx, result>>
  /\ UNCHANGED outsideExport

\* One iteration of for (const region of regions)
ProcessRegion ==
  /\ pc = "loop"
  /\ idx < Len(jobRegions)
  /\ canvas' = ApplyRegion(canvas, jobRegions[idx + 1])
  /\ idx' = idx + 1
  /\ UNCHANGED <<source, jobRegions, pc, result>>
  /\ UNCHANGED outsideExport

\* The loop is over: the canvas is serialised and returned (lines 115-116)
ExportPng ==
  /\ pc = "loop"
  /\ idx = Len(jobRegions)
  /\ result' = ToPixelData(canvas)
  /\ pc' = "done"
  /\ UNCHANGED <<source, jobRegions, canvas, idx>>
  /\ UNCHANGED outsideExport

ExportIdle ==
  /\ source = NoImage
  /\ jobRegions = <<>>
  /\ canvas = BlankCanvas
  /\ idx = 0
  /\ pc = "idle"
  /\ result = <<>>

\* processImage(base64, regions) has been called
ExportInit ==
  /\ source \in Images
  /\ jobRegions \in RegionLists
  /\ canvas = BlankCanvas
  /\ idx = 0
  /\ pc = "load"
  /\ result = <<>>

\* ================================================== pointer drag (RegionSelector)
\* Threshold of handleMouseUp, in pixels (line 98)
ReleaseThreshold == 2

\* Defaults of the editor's effect controls (ImageEditor.tsx lines 18-20)
DefaultMode == "pixelate"
DefaultBlockSize == 10
DefaultFillColor == "#000000"

\* onDrawStateChange(null)
NoDraw == [active |-> FALSE, x |-> 0, y |-> 0, width |-> 0, height |-> 0]

Rect(x, y, width, height) ==
  [active |-> TRUE, x |-> x, y |-> y, width |-> width, height |-> height]

Drag == [isDrawing |-> isDrawing, startRef |-> startRef, drawState |-> drawState]

\* The results of getImageCoords(e) the pointer events come with: image
\* coordinates in Unit steps
DragPoints ==
  { <<0, 0>>, <<Px(2), Px(2)>>, <<Px(2) + 1, Px(3)>>, <<Px(1), Px(4)>> }

\* The pointer positions mouseleave events come with: the positions on the
\* surface, and one just beyond its left edge
LeavePoints == DragPoints \cup { <<-1, 0>> }

\* The pointer positions of a session that also applies: two corners of a
\* rectangle large enough to be committed
EditorPoints == { <<0, 0>>, <<Px(2) + 1, Px(3)>> }

\* disabled={applying} in the inline editor, disabled={false} in the dialog
Disabled == flow = "inline" /\ applying

\* A press handler without the check of line 65
handleMouseDown_IgnoresDisabled(d, disabled, coords) ==
  [isDrawing |-> TRUE,
   startRef |-> [x |-> coords[1], y |-> coords[2]],
   drawState |-> Rect(coords[1], coords[2], 0, 0)]

\* handleMouseDown (lines 63-72)
handleMouseDown(d, disabled, coords) ==
  IF disabled THEN d
  ELSE [isDrawing |-> TRUE,
        startRef |-> [x |-> coords[1], y |-> coords[2]],
        drawState |-> Rect(coords[1], coords[2], 0, 0)]

handleMouseMove(d, coords) ==
  IF ~d.isDrawing THEN d
  ELSE [d EXCEPT !.drawState = Rect(d.startRef.x, d.startRef.y,
                                    coords[1] - d.startRef.x, coords[2] - d.startRef.y)]

\* handleMouseUp: the new drag state, whether onRegionComplete is called,
\* and with which rectangle
handleMouseUp(d, coords) ==
  IF ~d.isDrawing THEN [drag |-> d, complete |-> FALSE, args |-> NoArgs]
  ELSE LET width == coords[1] - d.startRef.x
           height == coords[2] - d.startRef.y
       IN [drag |-> [isDrawing |-> FALSE, startRef |-> d.startRef, drawState |-> NoDraw],
           complete |-> (Abs(width) > Px(ReleaseThreshold)
                         /\ Abs(height) > Px(ReleaseThreshold)),
           args |-> [x |-> d.startRef.x, y |-> d.startRef.y,
                     width |-> width, height |-> height, id |-> 0]]

\* A leave handler that ends the drag without committing
handleMouseLeave_Cancels(d, coords) ==
  IF ~d.isDrawing THEN [drag |-> d, complete |-> FALSE, args |-> NoArgs]
  ELSE [drag |-> [isDrawing |-> FALSE, startRef |-> d.startRef, drawState |-> NoDraw],
        complete |-> FALSE, args |-> NoArgs]

\* onMouseLeave={handleMouseUp}
handleMouseLeave(d, coords) == handleMouseUp(d, coords)

\* The state a pointer event finds
BeforeEvent ==
  [kind |-> ev.kind, complete |-> ev.complete, drag |-> Drag, store |-> Store,
   nextId |-> nextId]

PointerEvent(kind, coords, complete) ==
  [kind |-> kind, x |-> coords[1], y |-> coords[2], complete |-> complete,
   pre |-> BeforeEvent]

MouseDown(coords) ==
  /\ queue = <<>>
  /\ LET d == handleMouseDown(Drag, Disabled, coords)
     IN /\ isDrawing' = d.isDrawing
        /\ startRef' = d.startRef
        /\ drawState' = d.drawState
  /\ ev' = PointerEvent("down", coords, FALSE)
  /\ UNCHANGED storeVars
  /\ UNCHANGED outsideDrag

MouseMove(coords) ==
  /\ queue = <<>>
  /\ LET d == handleMouseMove(Drag, coords)
     IN /\ isDrawing' = d.isDrawing
        /\ startRef' = d.startRef
        /\ drawState' = d.drawState
  /\ ev' = PointerEvent("move", coords, FALSE)
  /\ UNCHANGED storeVars
  /\ UNCHANGED outsideDrag

\* The end of a pointer event handled by h: handleRegionComplete (lines
\* 114-118 of the editor) calls addRegion with the current effect controls
EndDrag(h, eager) ==
  /\ queue = <<>>
  /\ isDrawing' = h.drag.isDrawing
  /\ startRef' = h.drag.startRef
  /\ drawState' = h.drag.drawState
  /\ IF h.complete
     THEN CallAddRegion(h.args.x, h.args.y, h.args.width, h.args.height,
                        DefaultMode, DefaultBlockSize, DefaultFillColor, eager)
     ELSE UNCHANGED storeVars
  /\ UNCHANGED outsideDrag

MouseUp(coords, eager) ==
  /\ EndDrag(handleMouseUp(Drag, coords), eager)
  /\ ev' = PointerEvent("up", coords, handleMouseUp(Drag, coords).complete)

MouseLeave(coords, eager) ==
  /\ EndDrag(handleMouseLeave(Drag, coords), eager)
  /\ ev' = PointerEvent("leave", coords, handleMouseLeave(Drag, coords).complete)

\* React renders the editor after an event that queued a collection update
RenderEditor == RenderStore /\ UNCHANGED <<dragVars, outsideDrag>>

NoEvent ==
  [kind |-> "none", x |-> 0, y |-> 0, complete |-> FALSE,
   pre |-> [kind |-> "none", complete |-> FALSE,
            drag |-> [isDrawing |-> FALSE, startRef |-> [x |-> 0, y |-> 0],
                      drawState |-> NoDraw],
            store |-> NoCall.pre, nextId |-> 1]]

DragIdle ==
  /\ isDrawing = FALSE
  /\ startRef = [x |-> 0, y |-> 0]
  /\ drawState = NoDraw
  /\ ev = NoEvent

\* =========================================================== apply (editor)
Flows == {"inline", "dialog"}

NoApply == [outcome |-> "none", regions |-> <<>>, undoStack |-> <<>>, redoStack |-> <<>>]

\* The apply that is starting, with the session as the user left it
StartedApply ==
  [outcome |-> "running", regions |-> regions, undoStack |-> undoStack,
   redoStack |-> redoStack]

\* The messages of the errors processImage and replaceImageShape throw
Failures == {"Failed to apply changes"}

\* The objects the dialog serialises for Office.context.ui.messageParent:
\* the keys of the object and the array under its regions key
NoMessage == [type |-> "none", keys |-> {}, regions |-> <<>>]

ApplyMessage(rs) == [type |-> "apply-regions", keys |-> {"type", "regions"}, regions |-> rs]

CancelMessage == [type |-> "cancel", keys |-> {"type"}, regions |-> <<>>]

\* handleApply that sends whatever the collection is
handleApply_SendsEmpty(rendered) == ApplyMessage(rendered)

\* handleApply of the dialog editor (ImageList.tsx lines 213-220): the
\* message it sends, NoMessage when it returns at line 214
handleApply(rendered) ==
  IF Len(rendered) = 0 THEN NoMessage ELSE ApplyMessage(rendered)

\* handleCancel of the dialog editor (lines 222-224)
handleCancel == CancelMessage

\* A handler of the dialog has run: the message and the collection it found
Sent(handler, message) == [op |-> handler, message |-> message, collection |-> regions]

NoSent == [op |-> "none", message |-> NoMessage, collection |-> <<>>]

\* An edit of the session while the editor is open and no apply is running
EditAdd(a, eager) ==
  /\ sessionOpen
  /\ applyPc = "idle"
  /\ AddRegion(a[1], a[2], a[3], a[4], a[5], a[6], a[7], eager)

EditUndo(eager) ==
  /\ sessionOpen
  /\ applyPc = "idle"
  /\ Undo(eager)

\* Apply in the inline editor: handleApply of ImageEditor (lines 134-139),
\* up to the first await
ApplyInline ==
  /\ flow = "inline"
  /\ sessionOpen
  /\ applyPc = "idle"
  /\ queue = <<>>
  /\ regions # <<>>
  /\ applying' = TRUE
  /\ error' = ""
  /\ applyPc' = "processImage"
  /\ applyLog' = StartedApply
  /\ UNCHANGED <<flow, sessionOpen, sent, cancelled, document>>
  /\ UNCHANGED storeVars
  /\ UNCHANGED outsideApply

\* The editor is unmounted: its collection and its history are gone
CloseEditor ==
  /\ sessionOpen' = FALSE
  /\ regions' = <<>>
  /\ undoStack' = <<>>
  /\ redoStack' = <<>>
  /\ canUndo' = FALSE
  /\ canRedo' = FALSE
  /\ UNCHANGED <<queue, nextId, call, onlyMutations>>

\* Apply in the dialog: handleApply of DialogEditor sends the collection to
\* the task pane, whose handleDialogMessage (lines 66-74) closes the dialog,
\* and with it the editor that holds the collection and the history, before
\* it starts processing
ApplyDialog ==
  /\ flow = "dialog"
  /\ sessionOpen
  /\ applyPc = "idle"
  /\ queue = <<>>
  /\ sent' = Sent("handleApply", handleApply(regions))
  /\ IF handleApply(regions).type = "apply-regions"
     THEN /\ CloseEditor
          /\ applying' = TRUE
          /\ error' = ""
          /\ applyPc' = "processImage"
          /\ applyLog' = StartedApply
     ELSE /\ UNCHANGED <<sessionOpen, applying, error, applyPc, applyLog>>
          /\ UNCHANGED storeVars
  /\ UNCHANGED <<flow, cancelled, document>>
  /\ UNCHANGED outsideApply

\* Cancel in the dialog: handleCancel sends the cancel message, and
\* handleDialogMessage (TaskpaneApp.tsx lines 60-64) closes the dialog
CancelDialog ==
  /\ flow = "dialog"
  /\ sessionOpen
  /\ queue = <<>>
  /\ sent' = Sent("handleCancel", handleCancel)
  /\ CloseEditor
  /\ cancelled' = TRUE
  /\ UNCHANGED <<flow, applying, error, applyPc, applyLog, document>>
  /\ UNCHANGED outsideApply

\* The controls that leave the inline editor: the Back button
\* (ImageEditor.tsx line 156), disabled while an apply is running, and the
\* Escape key (lines 75-76), handled whenever the editor is mounted
BackControls == {"button", "Escape"}

ControlEnabled(control) == control = "button" => ~applying

\* onBack(): the parent discards the editing session
onBack ==
  /\ CloseEditor
  /\ cancelled' = TRUE

CancelInline(control) ==
  /\ flow = "inline"
  /\ sessionOpen
  /\ queue = <<>>
  /\ ControlEnabled(control)
  /\ onBack
  /\ UNCHANGED <<flow, applying, error, applyPc, applyLog, sent, document>>
  /\ UNCHANGED outsideApply

\* The catch block without the finally block
ApplyFails_NoFinally(message) ==
  /\ error' = message
  /\ applying' = applying
  /\ applyPc' = "idle"
  /\ applyLog' = [applyLog EXCEPT !.outcome = "failed"]
  /\ UNCHANGED <<flow, sessionOpen, sent, cancelled, document>>
  /\ UNCHANGED storeVars
  /\ UNCHANGED outsideApply

\* The catch and finally blocks: setError(message), setApplying(false)
ApplyFails(message) ==
  /\ error' = message
  /\ applying' = FALSE
  /\ applyPc' = "idle"
  /\ applyLog' = [applyLog EXCEPT !.outcome = "failed"]
  /\ UNCHANGED <<flow, sessionOpen, sent, cancelled, document>>
  /\ UNCHANGED storeVars
  /\ UNCHANGED outsideApply

\* await processImage(image.base64, regions) returns, and
\* replaceImageShape(image.id, processedBase64) is called
ProcessImageOk ==
  /\ applyPc = "processImage"
  /\ applyPc' = "replaceImageShape"
  /\ UNCHANGED <<flow, sessionOpen, applying, error, applyLog, sent, cancelled, document>>
  /\ UNCHANGED storeVars
  /\ UNCHANGED outsideApply

\* await processImage(image.base64, regions) throws
ProcessImageFails ==
  /\ applyPc = "processImage"
  /\ \E message \in Failures : ApplyFails(message)

\* await replaceImageShape(image.id, processed) returns: the picture of the
\* slide has been replaced; onApplied() or refresh(), then the finally block
ReplaceImageShapeOk ==
  /\ applyPc = "replaceImageShape"
  /\ applyPc' = "idle"
  /\ applying' = FALSE
  /\ applyLog' = [applyLog EXCEPT !.outcome = "applied"]
  /\ document' = "replaced"
  /\ UNCHANGED <<flow, sessionOpen, error, sent, cancelled>>
  /\ UNCHANGED storeVars
  /\ UNCHANGED outsideApply

\* await replaceImageShape(image.id, processed) throws
ReplaceImageShapeFails ==
  /\ applyPc = "replaceImageShape"
  /\ \E message \in Failures : ApplyFails(message)

ApplyIdle ==
  /\ flow = "inline"
  /\ sessionOpen = TRUE
  /\ applying = FALSE
  /\ error = ""
  /\ applyPc = "idle"
  /\ applyLog = NoApply
  /\ sent = NoSent
  /\ cancelled = FALSE
  /\ document = "original"

\* An editor has been opened, inline or in a dialog
ApplyInit ==
  /\ flow \in Flows
  /\ sessionOpen = TRUE
  /\ applying = FALSE
  /\ error = ""
  /\ applyPc = "idle"
  /\ applyLog = NoApply
  /\ sent = NoSent
  /\ cancelled = FALSE
  /\ document = "original"

\* ================================== preview scheduling (useCanvasRenderer)
Scheduler == [animFrameRef |-> animFrameRef, frames |-> frames, frameSeq |-> frameSeq]

\* render that requests a frame without cancelling the pending one
render_NoCancel(ready, st, version) ==
  IF ~ready THEN st
  ELSE [animFrameRef |-> st.frameSeq,
        frames |-> st.frames \cup {[id |-> st.frameSeq, captured |-> version]},
        frameSeq |-> st.frameSeq + 1]

\* render (lines 78-98): cancelAnimationFrame(animFrameRef.current), then
\* animFrameRef.current = requestAnimationFrame(callback).  version is the
\* session state at the time of the request.
render(ready, st, version) ==
  IF ~ready THEN st
  ELSE [animFrameRef |-> st.frameSeq,
        frames |-> { f \in st.frames : f.id # st.animFrameRef }
                     \cup {[id |-> st.frameSeq, captured |-> version]},
        frameSeq |-> st.frameSeq + 1]

RECURSIVE RenderTimes(_, _, _, _)
\* n calls of render in a row
RenderTimes(n, ready, st, version) ==
  IF n = 0 THEN st
  ELSE RenderTimes(n - 1, ready, render(ready, st, version), version)

\* What the callback of frame f passes to renderPreview when the refs hold
\* version current: regionsRef.current and drawStateRef.current (lines 91-92)
FrameState(f, current) == current

\* The image has decoded (lines 59-66): imageRef.current is set and
\* setImageSize makes the component render
ImageLoaded ==
  /\ ~imageReady
  /\ ~effectDue
  /\ imageReady' = TRUE
  /\ effectDue' = TRUE
  /\ UNCHANGED <<animFrameRef, frames, frameSeq, stateSeq, painted>>
  /\ UNCHANGED outsideFrame

\* The session state changes and the component renders: lines 48-52 store
\* the new state in the refs
Commit ==
  /\ ~effectDue
  /\ stateSeq < MaxVersion
  /\ stateSeq' = stateSeq + 1
  /\ effectDue' = TRUE
  /\ UNCHANGED <<animFrameRef, frames, frameSeq, imageReady, painted>>
  /\ UNCHANGED outsideFrame

\* The effects of the commit run: the hook's effect (lines 101-103, or line
\* 132) calls render, and so does the editor's effect when the collection
\* changed
RunEffects(n) ==
  /\ effectDue
  /\ LET st == RenderTimes(n, imageReady, Scheduler, stateSeq)
     IN /\ animFrameRef' = st.animFrameRef
        /\ frames' = st.frames
        /\ frameSeq' = st.frameSeq
  /\ effectDue' = FALSE
  /\ UNCHANGED <<stateSeq, imageReady, painted>>
  /\ UNCHANGED outsideFrame

\* The browser runs a requested callback
Frame(f) ==
  /\ f \in frames
  /\ frames' = frames \ {f}
  /\ painted' = [id |-> f.id, captured |-> f.captured,
                 version |-> FrameState(f, stateSeq), current |-> stateSeq]
  /\ UNCHANGED <<animFrameRef, frameSeq, stateSeq, effectDue, imageReady>>
  /\ UNCHANGED outsideFrame

NoPaint == [id |-> 0, captured |-> 0, version |-> 0, current |-> 0]

FrameIdle ==
  /\ animFrameRef = 0
  /\ frames = {}
  /\ frameSeq = 1
  /\ stateSeq = 0
  /\ effectDue = FALSE
  /\ imageReady = FALSE
  /\ painted = NoPaint

\* ============================================ editing session and decode
\* What a session leaves alone: the store, the drag and the preview are its
\* own
outsideSession == <<exportVars, applyVars, viewVars, batch, cleanVars, controlVars, loopVars, paneVars, shapeVars, fileVars, refreshVars, decodeVars, secureVars, exporterVars>>

\* {imageReady && <RegionSelector ... />} (ImageEditor.tsx line 197,
\* ImageList.tsx line 256): the overlay that receives the pointer events
\* exists once the image size is known
SelectorRendered(ready) == ready

\* handleApplyFullImage that goes on without an image size
handleApplyFullImage_NoCheck(ready) == TRUE

\* handleApplyFullImage (ImageEditor.tsx lines 121-132, ImageList.tsx lines
\* 207-210): whether it gets past "if (!imageSize) return" and calls
\* addRegion
handleApplyFullImage(ready) == ready

\* The component renders after an event changed its state: the refs get the
\* new state (lines 48-52) and the effect that calls render is due
Rerender(changed) ==
  IF changed
  THEN /\ stateSeq' = stateSeq + 1
       /\ effectDue' = TRUE
  ELSE UNCHANGED <<stateSeq, effectDue>>

\* What the handler of the overlay for a pointer event of this kind returns
SelectorHandler(kind, d, coords) ==
  CASE kind = "down" ->
         [drag |-> handleMouseDown(d, Disabled, coords), complete |-> FALSE, args |-> NoArgs]
    [] kind = "move" ->
         [drag |-> handleMouseMove(d, coords), complete |-> FALSE, args |-> NoArgs]
    [] kind = "up" -> handleMouseUp(d, coords)
    [] kind = "leave" -> handleMouseLeave(d, coords)

\* A pointer event on the overlay (RegionSelector.tsx lines 107-113).  A
\* committed region is rendered by RenderSession; a change of the drag alone
\* renders the editor at once.
SelectorEvent(kind, coords, eager) ==
  /\ SelectorRendered(imageReady)
  /\ ~effectDue
  /\ queue = <<>>
  /\ stateSeq < MaxVersion
  /\ LET h == SelectorHandler(kind, Drag, coords)
     IN /\ isDrawing' = h.drag.isDrawing
        /\ startRef' = h.drag.startRef
        /\ drawState' = h.drag.drawState
        /\ ev' = PointerEvent(kind, coords, h.complete)
        /\ IF h.complete
           THEN CallAddRegion(h.args.x, h.args.y, h.args.width, h.args.height,
                              DefaultMode, DefaultBlockSize, DefaultFillColor, eager)
           ELSE UNCHANGED storeVars
        /\ Rerender(~h.complete /\ h.drag # Drag)
  /\ UNCHANGED <<animFrameRef, frames, frameSeq, imageReady, painted>>
  /\ UNCHANGED outsideSession

\* The user presses "apply to full image"; the image is SurfaceW x SurfaceH
ApplyFullImage(eager) ==
  /\ ~effectDue
  /\ queue = <<>>
  /\ stateSeq < MaxVersion
  /\ IF handleApplyFullImage(imageReady)
     THEN CallAddRegion(0, 0, Px(SurfaceW), Px(SurfaceH),
                        DefaultMode, DefaultBlockSize, DefaultFillColor, eager)
     ELSE /\ call' = [op |-> "handleApplyFullImage", args |-> NoArgs, ret |-> 0,
                      pre |-> Store]
          /\ UNCHANGED <<regions, undoStack, redoStack, queue, canUndo, canRedo, nextId,
                         onlyMutations>>
  /\ UNCHANGED <<dragVars, frameVars>>
  /\ UNCHANGED outsideSession

\* React renders the editor with the collection an event has changed
RenderSession ==
  /\ ~effectDue
  /\ RenderStore
  /\ Rerender(TRUE)
  /\ UNCHANGED <<animFrameRef, frames, frameSeq, imageReady, painted>>
  /\ UNCHANGED <<dragVars, outsideSession>>

\* ===================================================== effect controls
\* Where the user leaves the thumb of the block-size slider: positions
\* within the track and positions past either end of it
SliderPositions == { MinBlockSize - 1, MinBlockSize, 7, MaxBlockSize, MaxBlockSize + 1 }

\* A slider without the min attribute
RangeValue_NoMin(position) == Min(position, MaxBlockSize)

\* e.target.value of <input type="range" min={4} max={50}> (ImageEditor.tsx
\* lines 296-303): the position, kept within min and max
RangeValue(position) == Max(MinBlockSize, Min(position, MaxBlockSize))

\* onChange of the slider: onBlockSizeChange(Number(e.target.value))
OnBlockSizeChange(position) ==
  /\ sessionOpen
  /\ ~applying
  /\ currentBlockSize' = RangeValue(position)
  /\ UNCHANGED outsideControls

\* handleRegionComplete (ImageEditor.tsx lines 114-119, ImageList.tsx lines
\* 200-205): a finished drag is added with the block size of the controls
HandleRegionComplete(rect, eager) ==
  /\ sessionOpen
  /\ applyPc = "idle"
  /\ CallAddRegion(rect[1], rect[2], rect[3], rect[4],
                   DefaultMode, currentBlockSize, DefaultFillColor, eager)
  /\ UNCHANGED outsideStore

ControlsIdle == currentBlockSize = DefaultBlockSize

\* ================================================ zoom and image loading
\* Zoom levels are multiples of 1 / ZoomUnit
ZoomUnit == 2 * ZoomRes

\* The levels 0.5, 5 and 1, and the step 0.5 of zoomIn and zoomOut
ZoomLo == ZoomMinHalves * ZoomRes

ZoomHi == ZoomMax * ZoomUnit

ZoomStep == ZoomStepHalves * ZoomRes

ZoomOne == ZoomDefault * ZoomUnit

\* The values of base64: two images that decode, one wider than high and
\* one higher than wide, and one whose bytes do not decode
Decodable == {1, 3}

Sources == Decodable \cup {2}

\* img.naturalWidth and img.naturalHeight
NaturalSize(b) ==
  IF b = 1 THEN [set |-> TRUE, width |-> SurfaceW, height |-> SurfaceH]
  ELSE [set |-> TRUE, width |-> SurfaceH, height |-> SurfaceW]

NoSize == [set |-> FALSE, width |-> 0, height |-> 0]

NoAnchor == [set |-> FALSE, containerX |-> 0, containerY |-> 0,
             absX |-> 0, canvasW |-> 1, absY |-> 0, canvasH |-> 1]

\* container.scrollWidth and container.scrollHeight: the container is
\* ViewW x ViewH pixels and the canvas is its only content
ScrollWidth(w) == Max(ViewW, w)

ScrollHeight(h) == Max(ViewH, h)

\* The browser keeps a scroll offset inside the scrollable range
ClampScroll(v, content, view) == Max(0, Min(v, Max(content, view) - view))

\* Math.min(5, Math.max(0.5, newZoom))
ClampZoom(newZoom) == Min(ZoomHi, Max(ZoomLo, newZoom))

\* The levels zoomAt is asked for
ZoomLevels ==
  { -ZoomUnit, ZoomLo + ZoomUnit \div 4, 2 * ZoomUnit, 7 * ZoomUnit }

\* The pointer positions of zoomAt, relative to the container
ViewPoints == { <<0, 0>>, <<ViewW - 1, 1>> }

\* Offsets the user scrolls to
ScrollInputs == { <<0, 0>>, <<Max(0, canvasW - ViewW), Max(0, canvasH - ViewH)>> }

\* zoomOut without the lower limit
zoomOut_NoFloor(z) == z - ZoomStep

\* The updater of zoomOut (line 173)
zoomOut(z) == Max(z - ZoomStep, ZoomLo)

\* The updater of zoomIn (line 169)
zoomIn(z) == Min(z + ZoomStep, ZoomHi)

\* The resize effect depends on [imageSize, zoom, render]: it runs when the
\* zoom level changed
AfterSetZoom(cause, z) == IF z # zoom THEN cause ELSE "none"

\* zoomAt(newZoom, clientX, clientY) (lines 139-166).  The container exists
\* once the editor has been given an image; zoomAt returns at line 142
\* before that.
ZoomAt(newZoom, point) ==
  /\ resizeDue = "none"
  /\ base64 # 0
  /\ zoomAnchor' = [set |-> TRUE, containerX |-> point[1], containerY |-> point[2],
                    absX |-> scrollLeft + point[1], canvasW |-> ScrollWidth(canvasW),
                    absY |-> scrollTop + point[2], canvasH |-> ScrollHeight(canvasH)]
  /\ zoom' = ClampZoom(newZoom)
  /\ resizeDue' = AfterSetZoom("zoomAt", ClampZoom(newZoom))
  /\ zoomCall' = [op |-> "zoomAt", level |-> newZoom]
  /\ UNCHANGED <<base64, loadPc, imageSize, canvasW, canvasH, scrollLeft, scrollTop>>
  /\ UNCHANGED outsideView

ZoomIn ==
  /\ resizeDue = "none"
  /\ zoom' = zoomIn(zoom)
  /\ resizeDue' = AfterSetZoom("zoomIn", zoomIn(zoom))
  /\ zoomCall' = [op |-> "zoomIn", level |-> 0]
  /\ UNCHANGED <<base64, loadPc, imageSize, canvasW, canvasH, scrollLeft, scrollTop,
                 zoomAnchor>>
  /\ UNCHANGED outsideView

ZoomOut ==
  /\ resizeDue = "none"
  /\ zoom' = zoomOut(zoom)
  /\ resizeDue' = AfterSetZoom("zoomOut", zoomOut(zoom))
  /\ zoomCall' = [op |-> "zoomOut", level |-> 0]
  /\ UNCHANGED <<base64, loadPc, imageSize, canvasW, canvasH, scrollLeft, scrollTop,
                 zoomAnchor>>
  /\ UNCHANGED outsideView

ZoomReset ==
  /\ resizeDue = "none"
  /\ zoom' = ZoomOne
  /\ resizeDue' = AfterSetZoom("zoomReset", ZoomOne)
  /\ zoomCall' = [op |-> "zoomReset", level |-> 0]
  /\ UNCHANGED <<base64, loadPc, imageSize, canvasW, canvasH, scrollLeft, scrollTop,
                 zoomAnchor>>
  /\ UNCHANGED outsideView

\* The editor is given another source image: the load effect (lines 55-70)
\* starts loadImage, whose result for the previous image is ignored, and
\* the effect of lines 73-75 resets the zoom
ImageChange(b) ==
  /\ resizeDue = "none"
  /\ b # base64
  /\ base64' = b
  /\ loadPc' = "loading"
  /\ zoom' = ZoomOne
  /\ resizeDue' = AfterSetZoom("image", ZoomOne)
  /\ zoomCall' = [op |-> "image", level |-> 0]
  /\ UNCHANGED <<imageSize, canvasW, canvasH, scrollLeft, scrollTop, zoomAnchor>>
  /\ UNCHANGED outsideView

\* img.onload: the promise resolves and the then-callback of lines 62-66 runs
DecodeOk ==
  /\ resizeDue = "none"
  /\ loadPc = "loading"
  /\ base64 \in Decodable
  /\ loadPc' = "ready"
  /\ imageSize' = NaturalSize(base64)
  /\ resizeDue' = "image"
  /\ UNCHANGED <<base64, zoom, canvasW, canvasH, scrollLeft, scrollTop, zoomAnchor,
                 zoomCall>>
  /\ UNCHANGED outsideView

\* img.onerror: the promise rejects; no rejection handler is attached to it
DecodeFail ==
  /\ resizeDue = "none"
  /\ loadPc = "loading"
  /\ base64 \notin Decodable
  /\ loadPc' = "failed"
  /\ UNCHANGED <<base64, imageSize, zoom, canvasW, canvasH, scrollLeft, scrollTop,
                 zoomAnchor, resizeDue, zoomCall>>
  /\ UNCHANGED outsideView

\* The user scrolls the container
Scroll(offset) ==
  /\ resizeDue = "none"
  /\ scrollLeft' = ClampScroll(offset[1], canvasW, ViewW)
  /\ scrollTop' = ClampScroll(offset[2], canvasH, ViewH)
  /\ UNCHANGED <<base64, loadPc, imageSize, zoom, canvasW, canvasH, zoomAnchor,
                 resizeDue, zoomCall>>
  /\ UNCHANGED outsideView

\* The offsets container.scrollLeft = fraction * display - containerPos can
\* be stored as: the browser keeps the value or drops its fractional part,
\* num / den being the fraction
AnchorOffsets(num, den, display, containerPos) ==
  { FloorDiv(num * display, den) - containerPos,
    -FloorDiv(-(num * display), den) - containerPos }

\* The resize effect (lines 106-133).  The canvas gets its new size, the
\* layout clamps the scroll offsets to the new scrollable range, and the
\* anchor, if any, is applied and cleared.
ResizeEffect ==
  /\ resizeDue # "none"
  /\ resizeDue' = "none"
  /\ IF ~imageSize.set
     THEN UNCHANGED <<canvasW, canvasH, scrollLeft, scrollTop, zoomAnchor>>
     ELSE LET displayWidth == RoundDiv(ViewW * zoom, ZoomUnit)
              displayHeight == RoundDiv(displayWidth * imageSize.height, imageSize.width)
          IN /\ canvasW' = displayWidth
             /\ canvasH' = displayHeight
             /\ zoomAnchor' = NoAnchor
             /\ IF zoomAnchor.set
                THEN /\ \E v \in AnchorOffsets(zoomAnchor.absX, zoomAnchor.canvasW,
                                               displayWidth, zoomAnchor.containerX) :
                          scrollLeft' = ClampScroll(v, displayWidth, ViewW)
                     /\ \E v \in AnchorOffsets(zoomAnchor.absY, zoomAnchor.canvasH,
                                               displayHeight, zoomAnchor.containerY) :
                          scrollTop' = ClampScroll(v, displayHeight, ViewH)
                ELSE /\ scrollLeft' = ClampScroll(scrollLeft, displayWidth, ViewW)
                     /\ scrollTop' = ClampScroll(scrollTop, displayHeight, ViewH)
  /\ UNCHANGED <<base64, loadPc, imageSize, zoom, zoomCall>>
  /\ UNCHANGED outsideView

\* What the editor shows in place of the canvas (ImageEditor.tsx lines
\* 186-197): the spinner "Loading image..." until imageSize is set
Shows == IF imageSize.set THEN "canvas" ELSE "loading"

ViewIdle ==
  /\ base64 = 0
  /\ loadPc = "none"
  /\ imageSize = NoSize
  /\ zoom = ZoomOne
  /\ canvasW = 0
  /\ canvasH = 0
  /\ scrollLeft = 0
  /\ scrollTop = 0
  /\ zoomAnchor = NoAnchor
  /\ resizeDue = "none"
  /\ zoomCall = [op |-> "none", level |-> 0]

\* ======================================= block loops of applyPixelation
\* Math.round(num / den) for den > 0
RoundRatio(num, den) == FloorDiv(2 * num + den, 2 * den)

\* The natural sizes of the images previewed: the surface, and an image
\* several times as wide as any canvas it is shown on
PreviewImages == { <<SurfaceW, SurfaceH>>, <<9 * SurfaceW, 9 * SurfaceH>> }

\* canvas.width of the preview: Math.round(baseWidth * zoom) (part_005
\* line 116) at the zoom levels of the editor
PreviewWidths == { RoundDiv(ViewW * ClampZoom(z), ZoomUnit) : z \in ZoomLevels }

\* The block sizes of the regions: the ends of the slider and its default
LoopBlockSizes == { MinBlockSize, DefaultBlockSize, MaxBlockSize }

\* The rectangles of the regions, as fractions of the image in Unit steps:
\* the whole image, and a part of it that reaches past its right edge
LoopRects(image) ==
  { [x |-> 0, y |-> 0, width |-> Px(image[1]), height |-> Px(image[2])],
    [x |-> Px(image[1]) \div 2, y |-> Unit \div 2,
     width |-> Px(image[1]), height |-> Px(2) + 1] }

\* A preview that scales the block size and does not keep it at 1 or more
PreviewBlockSize_NoFloor(size, naturalWidth, canvasWidth) ==
  RoundRatio(size * canvasWidth, naturalWidth)

\* blockSize of scaledRegion (part_001 line 148):
\* Math.max(1, Math.round(region.blockSize / scaleX)), with
\* scaleX = img.naturalWidth / canvas.width
PreviewBlockSize(size, naturalWidth, canvasWidth) ==
  Max(1, RoundRatio(size * canvasWidth, naturalWidth))

\* Lines 16-19 of applyPixelation for a rectangle whose sides are the
\* fractions num / den of a pixel, on a canvas of the given size
LoopClamp(r, den, canvasWidth, canvasHeight) ==
  LET cx == Max(0, RoundRatio(r.x, den[1]))
      cy == Max(0, RoundRatio(r.y, den[2]))
  IN [cw |-> Min(RoundRatio(r.width, den[1]), canvasWidth - cx),
      ch |-> Min(RoundRatio(r.height, den[2]), canvasHeight - cy)]

\* applyPixelation is entered: it returns at line 21 or enters the loops
EnterPixelation(c, size, caller) ==
  /\ loopPc = "idle"
  /\ loopArgs' = [cw |-> c.cw, ch |-> c.ch, blockSize |-> size, caller |-> caller]
  /\ loopPc' = IF c.cw <= 0 \/ c.ch <= 0 THEN "done" ELSE "loop"
  /\ loopX' = 0
  /\ loopY' = 0
  /\ UNCHANGED outsideLoop

\* processImage applies a region of the collection to the canvas of the
\* image's natural size
PixelateExport(image, r, size) ==
  EnterPixelation(LoopClamp(r, <<Unit, Unit>>, image[1], image[2]), size, "processImage")

\* renderPreview applies scaledRegion (lines 141-152) to the canvas of the
\* editor: x / scaleX is x * canvas.width / img.naturalWidth
PixelatePreview(image, r, size, canvasWidth) ==
  LET canvasHeight == RoundDiv(canvasWidth * image[2], image[1])
      scaled == [x |-> r.x * canvasWidth, y |-> r.y * canvasHeight,
                 width |-> r.width * canvasWidth, height |-> r.height * canvasHeight]
  IN EnterPixelation(LoopClamp(scaled, <<Unit * image[1], Unit * image[2]>>,
                               canvasWidth, canvasHeight),
                     PreviewBlockSize(size, image[1], canvasWidth), "renderPreview")

\* One evaluation of the loop conditions of lines 26-27: a block is
\* processed and blockX advances, or the row ends and blockY advances, or
\* the loops are left
LoopStep ==
  /\ loopPc = "loop"
  /\ IF loopY >= loopArgs.ch
     THEN /\ loopPc' = "done"
          /\ UNCHANGED <<loopX, loopY>>
     ELSE IF loopX >= loopArgs.cw
          THEN /\ loopX' = 0
               /\ loopY' = loopY + loopArgs.blockSize
               /\ UNCHANGED loopPc
          ELSE /\ loopX' = loopX + loopArgs.blockSize
               /\ UNCHANGED <<loopY, loopPc>>
  /\ UNCHANGED loopArgs
  /\ UNCHANGED outsideLoop

LoopIdle ==
  /\ loopPc = "idle"
  /\ loopArgs = [cw |-> 0, ch |-> 0, blockSize |-> 0, caller |-> "none"]
  /\ loopX = 0
  /\ loopY = 0

\* ============================================ task pane and its dialog
\* What the task pane and the apply it starts leave alone
outsidePaneApply == <<storeVars, exportVars, dragVars, frameVars, viewVars, batch, cleanVars, controlVars, loopVars, shapeVars, fileVars, refreshVars, decodeVars, secureVars, exporterVars>>
outsideShape == <<storeVars, exportVars, dragVars, applyVars, frameVars, viewVars, batch, cleanVars, controlVars, loopVars, paneVars, fileVars, refreshVars, decodeVars, secureVars, exporterVars>>
outsideFile == <<storeVars, exportVars, dragVars, applyVars, frameVars, viewVars, batch, cleanVars, controlVars, loopVars, paneVars, shapeVars, refreshVars, decodeVars, secureVars, exporterVars>>
outsideRefresh == <<storeVars, exportVars, dragVars, applyVars, frameVars, viewVars, batch, cleanVars, controlVars, loopVars, paneVars, shapeVars, fileVars, decodeVars, secureVars, exporterVars>>
outsideDecode == <<storeVars, exportVars, dragVars, applyVars, frameVars, viewVars, batch, cleanVars, controlVars, loopVars, paneVars, shapeVars, fileVars, refreshVars, secureVars, exporterVars>>
outsideSecure == <<storeVars, exportVars, dragVars, applyVars, frameVars, viewVars, batch, cleanVars, controlVars, loopVars, paneVars, shapeVars, fileVars, refreshVars, decodeVars, exporterVars>>
outsideExporter == <<storeVars, exportVars, dragVars, applyVars, frameVars, viewVars, batch, cleanVars, controlVars, loopVars, paneVars, shapeVars, fileVars, refreshVars, decodeVars, secureVars>>

\* The ids of the pictures listed in the task pane
PaneImages == {1, 2}

NoDialog == [open |-> FALSE, image |-> 0]

NoPaneApply == [target |-> 0, shown |-> 0]

\* Office shows one dialog per host page: displayDialogAsync fails while a
\* dialog is open, and can fail when none is
DisplayDialogAsync(accepted) == accepted /\ ~dialog.open

\* handleSelectImage (TaskpaneApp.tsx lines 93-127) with the callback of
\* displayDialogAsync
HandleSelectImage(image, accepted) ==
  /\ selectedImageRef' = image
  /\ storage' = image
  /\ IF DisplayDialogAsync(accepted)
     THEN /\ dialogRef' = TRUE
          /\ dialog' = [open |-> TRUE, image |-> 0]
          /\ UNCHANGED error
     ELSE /\ error' = "Failed to open editor dialog"
          /\ UNCHANGED <<dialogRef, dialog>>
  /\ UNCHANGED <<paneApply, flow, sessionOpen, applying, applyPc, applyLog, sent,
                 cancelled, document>>
  /\ UNCHANGED outsidePaneApply

\* The dialog editor mounts and reads the image from localStorage
\* (ImageList.tsx lines 107-116)
DialogMount ==
  /\ dialog.open
  /\ dialog.image = 0
  /\ dialog' = [dialog EXCEPT !.image = storage]
  /\ sessionOpen' = (storage # 0)
  /\ UNCHANGED <<selectedImageRef, dialogRef, storage, paneApply>>
  /\ UNCHANGED <<flow, applying, error, applyPc, applyLog, sent, cancelled, document>>
  /\ UNCHANGED outsidePaneApply

\* The image handleDialogMessage processes for an apply-regions message
\* (line 70)
ApplyTarget == selectedImageRef

\* The dialog sends apply-regions: handleDialogMessage (lines 66-79) closes
\* the dialog and starts the apply
DialogApplyMessage ==
  /\ dialog.open
  /\ dialog.image # 0
  /\ applyPc = "idle"
  /\ dialogRef' = FALSE
  /\ dialog' = NoDialog
  /\ sessionOpen' = FALSE
  /\ IF ApplyTarget = 0
     THEN UNCHANGED <<paneApply, applying, error, applyPc, applyLog>>
     ELSE /\ paneApply' = [target |-> ApplyTarget, shown |-> dialog.image]
          /\ applying' = TRUE
          /\ error' = ""
          /\ applyPc' = "processImage"
          /\ applyLog' = StartedApply
  /\ UNCHANGED <<selectedImageRef, storage, flow, sent, cancelled, document>>
  /\ UNCHANGED outsidePaneApply

\* The dialog sends cancel (lines 60-64), or the user closes its window
\* (lines 118-124)
DialogCloses ==
  /\ dialog.open
  /\ dialogRef' = FALSE
  /\ dialog' = NoDialog
  /\ sessionOpen' = FALSE
  /\ UNCHANGED <<selectedImageRef, storage, paneApply>>
  /\ UNCHANGED <<flow, applying, error, applyPc, applyLog, sent, cancelled, document>>
  /\ UNCHANGED outsidePaneApply

PaneIdle ==
  /\ selectedImageRef = 0
  /\ dialogRef = FALSE
  /\ storage = 0
  /\ dialog = NoDialog
  /\ paneApply = NoPaneApply

\* ========================================= replaceImageShape (office-api)
NoShape == [id |-> 0, kind |-> "none", left |-> 0, top |-> 0, width |-> 0, height |-> 0,
            fill |-> "none", line |-> FALSE]

\* A picture of the slide
Picture(id, g) ==
  [id |-> id, kind |-> "picture", left |-> g[1], top |-> g[2], width |-> g[3],
   height |-> g[4], fill |-> "original", line |-> FALSE]

\* Positions and sizes (left, top, width, height) of the pictures
Geometries == { <<l, t, w, 3>> : l \in {0, 3}, t \in {0, 2}, w \in {4, 6} }

\* Ids of the pictures of the slide, and the id the new shape gets
PictureIds == {1, 2}

NewShapeId == Cardinality(PictureIds) + 1

\* The shape shapes.getItem(id) stands for
GetItem(shapes, id) ==
  IF \E sh \in shapes : sh.id = id THEN CHOOSE sh \in shapes : sh.id = id ELSE NoShape

\* A create batch that also holds the delete
CreateBatch_DeleteFirst == <<"delete", "addGeometricShape", "setImage", "lineFormat">>

\* The commands queued before the second context.sync() (lines 142-153)
CreateBatch == <<"addGeometricShape", "setImage", "lineFormat">>

\* The commands queued before each context.sync() of replaceImageShape
BatchOf(at) ==
  CASE at = "load" -> <<"load">>
    [] at = "create" -> CreateBatch
    [] at = "delete" -> <<"delete">>
    [] OTHER -> <<>>

\* The slide after one command of a batch
RunCommand(shapes, command, id, g) ==
  CASE command = "addGeometricShape" ->
         shapes \cup { [id |-> NewShapeId, kind |-> "rectangle", left |-> g.left,
                        top |-> g.top, width |-> g.width, height |-> g.height,
                        fill |-> "none", line |-> TRUE] }
    [] command = "setImage" ->
         { IF sh.id = NewShapeId THEN [sh EXCEPT !.fill = "processed"] ELSE sh : sh \in shapes }
    [] command = "lineFormat" ->
         { IF sh.id = NewShapeId THEN [sh EXCEPT !.line = FALSE] ELSE sh : sh \in shapes }
    [] command = "delete" -> { sh \in shapes : sh.id # id }
    [] OTHER -> shapes

RECURSIVE RunBatch(_, _, _, _, _)
\* The slide after the first n commands of a batch
RunBatch(shapes, batchOf, n, id, g) ==
  IF n = 0 THEN shapes
  ELSE RunCommand(RunBatch(shapes, batchOf, n - 1, id, g), batchOf[n], id, g)

\* replaceImageShape(shapeId, processedBase64) is called (lines 131-140)
StartReplace ==
  /\ replacePc = "idle"
  /\ replacePc' = "load"
  /\ UNCHANGED <<slideShapes, shapeId, oldGeometry, loaded>>
  /\ UNCHANGED outsideShape

\* await context.sync(): the host runs the queued commands in order and
\* stops at the first that fails; what ran before it stays done.  n is the
\* number of commands that ran.  Loading a shape the slide does not have
\* fails.
Sync(n) ==
  /\ replacePc \in {"load", "create", "delete"}
  /\ n \in 0..Len(BatchOf(replacePc))
  /\ (replacePc = "load" /\ GetItem(slideShapes, shapeId) = NoShape) => n = 0
  /\ slideShapes' = RunBatch(slideShapes, BatchOf(replacePc), n, shapeId, loaded)
  /\ loaded' = IF replacePc = "load" /\ n = 1 THEN GetItem(slideShapes, shapeId) ELSE loaded
  /\ replacePc' = IF n < Len(BatchOf(replacePc)) THEN "failed"
                  ELSE CASE replacePc = "load" -> "create"
                         [] replacePc = "create" -> "delete"
                         [] replacePc = "delete" -> "done"
  /\ UNCHANGED <<shapeId, oldGeometry>>
  /\ UNCHANGED outsideShape

ShapeIdle ==
  /\ slideShapes = {}
  /\ shapeId = 0
  /\ oldGeometry = NoShape
  /\ loaded = NoShape
  /\ replacePc = "idle"

\* A slide with two pictures; the shape to replace is one of them or a
\* shape the slide no longer has
ShapeInit ==
  /\ \E g1 \in Geometries, g2 \in Geometries :
       slideShapes = { Picture(1, g1), Picture(2, g2) }
  /\ shapeId \in PictureIds \cup {NewShapeId + 1}
  /\ oldGeometry = GetItem(slideShapes, shapeId)
  /\ loaded = NoShape
  /\ replacePc = "idle"

\* ============================================== getFileAsync (office-api)
\* Most slices of a file
MaxSlices == 3

\* What a slice can hold
SliceData == { <<1>>, <<2, 3>>, <<4>>, <<>> }

RECURSIVE concatUint8Arrays(_)
\* The arrays one after the other, first to last
concatUint8Arrays(arrays) ==
  IF arrays = <<>> THEN <<>> ELSE Head(arrays) \o concatUint8Arrays(Tail(arrays))

\* All slices are in as soon as one is
AllReceived_First(received, count) == received >= 1

\* slicesReceived === file.sliceCount (line 219)
AllReceived(received, count) == received = count

\* getFileAsync() is called: the promise executor asks the host for the file
GetFileAsync ==
  /\ filePc = "idle"
  /\ filePc' = "opening"
  /\ UNCHANGED <<sliceCount, requested, slices, served, closeCalls, settleCalls, fileResult>>
  /\ UNCHANGED outsideFile

\* The callback of Office.context.document.getFileAsync (lines 175-228)
FileCallback(ok, count) ==
  /\ filePc = "opening"
  /\ IF ~ok
     THEN /\ settleCalls' = settleCalls + 1
          /\ filePc' = "rejected"
          /\ UNCHANGED <<sliceCount, requested, closeCalls>>
     ELSE /\ sliceCount' = count
          /\ IF count = 0
             THEN /\ closeCalls' = closeCalls + 1
                  /\ settleCalls' = settleCalls + 1
                  /\ filePc' = "rejected"
                  /\ UNCHANGED requested
             ELSE /\ requested' = <<0>>
                  /\ filePc' = "slice"
                  /\ UNCHANGED <<closeCalls, settleCalls>>
  /\ UNCHANGED <<slices, served, fileResult>>
  /\ UNCHANGED outsideFile

\* The callback of file.getSliceAsync(index, ...) (lines 194-225)
SliceCallback(ok, data) ==
  /\ filePc = "slice"
  /\ LET index == requested[Len(requested)]
         received == Append(slices, data)
     IN IF ~ok
        THEN /\ closeCalls' = closeCalls + 1
             /\ settleCalls' = settleCalls + 1
             /\ filePc' = "rejected"
             /\ UNCHANGED <<requested, slices, served, fileResult>>
        ELSE /\ slices' = received
             /\ served' = Append(served, data)
             /\ IF AllReceived(Len(received), sliceCount)
                THEN /\ closeCalls' = closeCalls + 1
                     /\ settleCalls' = settleCalls + 1
                     /\ fileResult' = concatUint8Arrays(received)
                     /\ filePc' = "resolved"
                     /\ UNCHANGED requested
                ELSE /\ requested' = Append(requested, index + 1)
                     /\ UNCHANGED <<closeCalls, settleCalls, fileResult, filePc>>
  /\ UNCHANGED sliceCount
  /\ UNCHANGED outsideFile

FileIdle ==
  /\ filePc = "idle"
  /\ sliceCount = -1
  /\ requested = <<>>
  /\ slices = <<>>
  /\ served = <<>>
  /\ closeCalls = 0
  /\ settleCalls = 0
  /\ fileResult = <<>>

\* ====================================================== useSlideImages
\* Most calls of refresh
MaxRefresh == 3

\* What getSlideImages can resolve with: the pictures of the slide selected
\* when it read the slide
SlideLists == { <<>>, <<1>>, <<1, 2>> }

NoOutcome == [images |-> <<>>, error |-> "none"]

\* refresh() up to the await (part_004 lines 10-14); called by the mount
\* effect, the DocumentSelectionChanged handler and the Refresh and Retry
\* buttons (TaskpaneApp.tsx lines 24-53)
Refresh ==
  /\ started < MaxRefresh
  /\ started' = started + 1
  /\ loading' = TRUE
  /\ imageError' = "null"
  /\ inFlight' = inFlight \cup {started + 1}
  /\ UNCHANGED <<images, outcomes>>
  /\ UNCHANGED outsideRefresh

\* getSlideImages() resolves for call n (lines 15, 21-23)
RefreshResolves(n, slideImages) ==
  /\ n \in inFlight
  /\ images' = slideImages
  /\ loading' = FALSE
  /\ inFlight' = inFlight \ {n}
  /\ outcomes' = [outcomes EXCEPT ![n] = [images |-> slideImages, error |-> "null"]]
  /\ UNCHANGED <<imageError, started>>
  /\ UNCHANGED outsideRefresh

\* getSlideImages() rejects for call n (lines 16-23)
RefreshRejects(n) ==
  /\ n \in inFlight
  /\ imageError' = "Failed to load images"
  /\ images' = <<>>
  /\ loading' = FALSE
  /\ inFlight' = inFlight \ {n}
  /\ outcomes' = [outcomes EXCEPT ![n] = [images |-> <<>>, error |-> "Failed to load images"]]
  /\ UNCHANGED started
  /\ UNCHANGED outsideRefresh

RefreshIdle ==
  /\ images = <<>>
  /\ loading = FALSE
  /\ imageError = "null"
  /\ started = 0
  /\ inFlight = {}
  /\ outcomes = [n \in {} |-> NoOutcome]

RefreshInit ==
  /\ images = <<>>
  /\ loading = FALSE
  /\ imageError = "null"
  /\ started = 0
  /\ inFlight = {}
  /\ outcomes = [n \in 1..MaxRefresh |-> NoOutcome]

\* ======================================= decodes in flight (load effect)
\* Most calls of loadImage
MaxDecodes == 3

\* The then-callback without the test of cancelled
Installs_Always(decode) == TRUE

\* if (cancelled) return (part_005 line 63)
Installs(decode) == ~decode.cancelled

\* base64 changes: the cleanup of the previous run of the load effect sets
\* its cancelled (lines 67-69), then the effect runs for the new value
\* (lines 55-66) and the effect of lines 73-75 resets the zoom
SourceChange(b) ==
  /\ b # base64
  /\ decodeCount < MaxDecodes
  /\ base64' = b
  /\ zoom' = ZoomOne
  /\ IF b = 0
     THEN /\ imageRef' = 0
          /\ imageSize' = NoSize
          /\ loadPc' = "none"
          /\ decodes' = { [d EXCEPT !.cancelled = TRUE] : d \in decodes }
          /\ UNCHANGED decodeCount
     ELSE /\ decodeCount' = decodeCount + 1
          /\ loadPc' = "loading"
          /\ decodes' = { [d EXCEPT !.cancelled = TRUE] : d \in decodes }
                          \cup { [n |-> decodeCount + 1, src |-> b, cancelled |-> FALSE] }
          /\ UNCHANGED <<imageRef, imageSize>>
  /\ UNCHANGED <<canvasW, canvasH, scrollLeft, scrollTop, zoomAnchor, resizeDue, zoomCall>>
  /\ UNCHANGED outsideViewDecode

\* loadImage resolves for one of the calls in flight: the then-callback of
\* lines 62-66
DecodeResolves(decode) ==
  /\ decode \in decodes
  /\ decode.src \in Decodable
  /\ decodes' = decodes \ {decode}
  /\ IF Installs(decode)
     THEN /\ imageRef' = decode.src
          /\ imageSize' = NaturalSize(decode.src)
          /\ loadPc' = "ready"
     ELSE UNCHANGED <<imageRef, imageSize, loadPc>>
  /\ UNCHANGED <<base64, decodeCount, zoom, canvasW, canvasH, scrollLeft, scrollTop,
                 zoomAnchor, resizeDue, zoomCall>>
  /\ UNCHANGED outsideViewDecode

\* loadImage rejects for one of the calls in flight: nothing handles it
DecodeRejects(decode) ==
  /\ decode \in decodes
  /\ decode.src \notin Decodable
  /\ decodes' = decodes \ {decode}
  /\ loadPc' = IF decode.cancelled THEN loadPc ELSE "failed"
  /\ UNCHANGED <<base64, decodeCount, imageRef, imageSize, zoom, canvasW, canvasH,
                 scrollLeft, scrollTop, zoomAnchor, resizeDue, zoomCall>>
  /\ UNCHANGED outsideViewDecode

DecodeIdle ==
  /\ decodes = {}
  /\ decodeCount = 0
  /\ imageRef = 0

\* ======================================================== secureExport
\* The ZIP magic bytes PK\x03\x04 (secure-export.ts line 32)
ZipSignature == <<80, 75, 3, 4>>

\* The files given to secureExport: a presentation, an archive without
\* entries (it starts with the end-of-central-directory record PK\x05\x06),
\* the first part of a spanned archive (PK\x07\x08), an executable, a PDF,
\* files shorter than four bytes and an empty file.  JSZip reads the file
\* or finds it corrupt; it cannot read what is too short to hold an archive.
SecureFiles ==
  { f \in [header : {ZipSignature, <<80, 75, 5, 6>>, <<80, 75, 7, 8>>, <<77, 90, 0, 0>>,
                     <<37, 80, 68, 70>>, <<80, 75>>, <<80>>, <<>>},
           readable : BOOLEAN, stripMetadata : BOOLEAN] :
      f.readable => Len(f.header) = 4 }

NoFile == [header |-> <<>>, readable |-> FALSE, stripMetadata |-> FALSE]

\* No test of the first bytes
PassesMagic_Any(header) == TRUE

\* new Uint8Array(arrayBuffer, 0, 4) throws for fewer than four bytes; then
\* header[0] !== 0x50 || header[1] !== 0x4b throws (lines 33-36)
PassesMagic(header) == Len(header) >= 4 /\ header[1] = 80 /\ header[2] = 75

\* The await that follows each await of secureExport, and its onProgress
\* string (lines 38-63)
StageAfter(at, file) ==
  CASE at = "reading" -> "analyzing"
    [] at = "analyzing" -> "scanning"
    [] at = "scanning" -> IF file.stripMetadata THEN "stripping" ELSE "generating"
    [] at = "stripping" -> "generating"
    [] at = "generating" -> "done"

ProgressOf(at) ==
  CASE at = "reading" -> "Reading file..."
    [] at = "analyzing" -> "Analyzing file structure..."
    [] at = "scanning" -> "Scanning for orphaned media files..."
    [] at = "stripping" -> "Stripping metadata..."
    [] at = "generating" -> "Generating secure file..."
    [] at = "done" -> "Downloading..."

\* secureExport(file, options, onProgress) up to its first await
\* (lines 22-30)
SecureExportCall(file) ==
  /\ securePc = "idle"
  /\ secureFile' = file
  /\ securePc' = "reading"
  /\ stages' = <<ProgressOf("reading")>>
  /\ UNCHANGED <<cleaned, stripped, downloads>>
  /\ UNCHANGED outsideSecure

\* The awaited promise settles and secureExport runs to its next await, to
\* its return or to a throw (lines 30-71).  ok: the promise resolved;
\* JSZip.loadAsync resolves for a file it can read only.
SecureAwaitSettles(ok) ==
  /\ securePc \in {"reading", "analyzing", "scanning", "stripping", "generating"}
  /\ (securePc = "analyzing" /\ ok) => secureFile.readable
  /\ LET next == StageAfter(securePc, secureFile)
         thrown == \/ ~ok
                   \/ securePc = "reading" /\ ~PassesMagic(secureFile.header)
     IN /\ securePc' = IF thrown THEN "failed" ELSE next
        /\ stages' = IF thrown THEN stages ELSE Append(stages, ProgressOf(next))
        /\ cleaned' = (cleaned \/ (securePc = "scanning" /\ ok))
        /\ stripped' = (stripped \/ (securePc = "stripping" /\ ok))
        /\ downloads' = IF ~thrown /\ next = "done" THEN downloads + 1 ELSE downloads
  /\ UNCHANGED secureFile
  /\ UNCHANGED outsideSecure

SecureIdle ==
  /\ secureFile = NoFile
  /\ securePc = "idle"
  /\ stages = <<>>
  /\ cleaned = FALSE
  /\ stripped = FALSE
  /\ downloads = 0

\* ====================================== SecureExport (the export panel)
\* Most calls of processFile that reach secureExport
MaxExports == 2

\* processFile(file) up to its await (TaskpaneApp.tsx lines 235-255).  The
\* file comes from the file dialog, opened only while nothing is exported,
\* or from a drop, which the drop zone takes at any time (lines 338-339).
ProcessFile(pptxName) ==
  /\ IF ~pptxName
     THEN /\ exportError' = "Please select a .pptx file."
          /\ exportOutcome' = "refused"
          /\ exportError # "Please select a .pptx file." \/ exportOutcome # "refused"
          /\ UNCHANGED <<exporting, exportResult, exportRuns, exportStarted>>
     ELSE /\ exportStarted < MaxExports
          /\ exporting' = TRUE
          /\ exportError' = ""
          /\ exportResult' = FALSE
          /\ exportRuns' = exportRuns \cup {exportStarted + 1}
          /\ exportStarted' = exportStarted + 1
          /\ UNCHANGED exportOutcome
  /\ UNCHANGED outsideExporter

\* await secureExport(...) returns or throws for one of the calls: setResult
\* or the catch block, then the finally block (lines 255-263)
ExportSettles(run, ok) ==
  /\ run \in exportRuns
  /\ exportRuns' = exportRuns \ {run}
  /\ IF ok
     THEN /\ exportResult' = TRUE
          /\ exportOutcome' = "done"
          /\ UNCHANGED exportError
     ELSE /\ exportError' = "Export failed"
          /\ exportOutcome' = "failed"
          /\ UNCHANGED exportResult
  /\ exporting' = FALSE
  /\ UNCHANGED exportStarted
  /\ UNCHANGED outsideExporter

ExporterIdle ==
  /\ exporting = FALSE
  /\ exportError = ""
  /\ exportResult = FALSE
  /\ exportRuns = {}
  /\ exportStarted = 0
  /\ exportOutcome = "none"

\* ================================ handlers called back to back (useRegions)
\* The collection and the two stacks
StoreOf(cur, refs) ==
  [regions |-> cur, undoStack |-> refs.undoStack, redoStack |-> refs.redoStack]

\* Handler h with arguments args joins the batch: a handler called while no
\* update is pending starts a new batch
Joined(h, args) ==
  IF queue = <<>>
  THEN [start |-> StoreOf(regions, Refs(undoStack, redoStack)),
        ops |-> <<[op |-> h, args |-> args]>>]
  ELSE [batch EXCEPT !.ops = Append(@, [op |-> h, args |-> args])]

\* A handler returns s, with the hook not rendered since the batch began
BatchCall(h, args, s) ==
  /\ queue # <<>> => Len(batch.ops) < MaxBatch
  /\ Len(undoStack) + Len(redoStack) + Len(queue) <= MaxDepth
  /\ queue' = s.queue
  /\ undoStack' = s.refs.undoStack
  /\ redoStack' = s.refs.redoStack
  /\ batch' = Joined(h, args)
  /\ UNCHANGED <<regions, canUndo, canRedo, call, onlyMutations>>
  /\ UNCHANGED outsideBatch

BatchAdd(a, eager) ==
  /\ nextId <= MaxIds
  /\ nextId' = nextId + 1
  /\ BatchCall("addRegion", [a |-> a, id |-> generateId],
               addRegion(a[1], a[2], a[3], a[4], a[5], a[6], a[7], generateId,
                         eager, queue, regions, Refs(undoStack, redoStack)))

BatchRemove(id, eager) ==
  /\ UNCHANGED nextId
  /\ BatchCall("removeRegion", [a |-> <<>>, id |-> id],
               removeRegion(id, eager, queue, regions, Refs(undoStack, redoStack)))

BatchClear(eager) ==
  /\ UNCHANGED nextId
  /\ BatchCall("clearRegions", [a |-> <<>>, id |-> 0],
               clearRegions(eager, queue, regions, Refs(undoStack, redoStack)))

BatchUndo(eager) ==
  /\ UNCHANGED nextId
  /\ BatchCall("undo", [a |-> <<>>, id |-> 0],
               undo(eager, queue, regions, Refs(undoStack, redoStack)))

BatchRedo(eager) ==
  /\ UNCHANGED nextId
  /\ BatchCall("redo", [a |-> <<>>, id |-> 0],
               redo(eager, queue, regions, Refs(undoStack, redoStack)))

\* React renders the hook: every queued update runs
BatchRender == RenderStore /\ UNCHANGED <<batch, outsideBatch>>

\* Ids removeRegion is called with in a batch
BatchRemoveInputs == 1..MaxIds

\* Arguments addRegion is called with in a batch: one rectangle that is
\* accepted and one that is rejected
BatchAddInputs ==
  { <<0, 0, Px(2), Px(3), "solid", MinBlockSize, "#ff0000">>,
    <<0, 0, Px(1), Px(1), "pixelate", MinBlockSize, "#000000">> }

NoBatch == [start |-> [regions |-> <<>>, undoStack |-> <<>>, redoStack |-> <<>>],
            ops |-> <<>>]

BatchIdle == batch = NoBatch

\* ============================================= orphaned media (media-cleaner)
\* File names and relationship targets are sequences of path segments: the
\* text between the "/" characters.  An absolute target starts with an empty
\* segment.
Media1 == <<"ppt", "media", "image1.png">>

Media2 == <<"ppt", "media", "image2.png">>

Slide1 == <<"ppt", "slides", "slide1.xml">>

SlideRels == <<"ppt", "slides", "_rels", "slide1.xml.rels">>

PresRels == <<"ppt", "_rels", "presentation.xml.rels">>

\* Relationship records: the Target attribute, and whether TargetMode is
\* "External"
Rel(target, external) == [target |-> target, external |-> external]

\* The records a slide's .rels file is made of: two pictures, a layout, and
\* a hyperlink to a web address
SlideRecords ==
  { Rel(<<"..", "media", "image1.png">>, FALSE),
    Rel(<<"..", "media", "image2.png">>, FALSE),
    Rel(<<"..", "slideLayouts", "slideLayout1.xml">>, FALSE),
    Rel(<<"https:", "", "example.com", "media", "image1.png">>, TRUE) }

\* The records the presentation's .rels file is made of
PresRecords ==
  { Rel(<<"media", "image2.png">>, FALSE),
    Rel(<<"", "ppt", "media", "image2.png">>, FALSE) }

\* /\.rels$/ on a file name
IsRelsName(name) == Last(name) \in {"slide1.xml.rels", "presentation.xml.rels"}

\* /^ppt\/media\// on a file name
IsMediaName(name) == Len(name) >= 3 /\ name[1] = "ppt" /\ name[2] = "media"

\* A path segment that ends with the characters "media"
EndsWithMedia(segment) == segment \in {"media", "multimedia"}

\* /Target="[^"]*?media\/([^"]+)"/ on one record (lines 20-23): the lazy
\* prefix stops at the first "media/", the group takes the rest of the
\* attribute, and "ppt/media/" + group is collected
MediaMatch(target) ==
  LET at == { i \in 1..(Len(target) - 1) : EndsWithMedia(target[i]) }
  IN IF at = {} THEN {}
     ELSE { <<"ppt", "media">> \o SubSeq(target, SetMin(at) + 1, Len(target)) }

\* /Target="\.\.\/media\/([^"]+)"/ on one record (lines 25-30)
RelativeMatch(target) ==
  IF Len(target) >= 3 /\ target[1] = ".." /\ target[2] = "media"
  THEN { <<"ppt", "media">> \o SubSeq(target, 3, Len(target)) }
  ELSE {}

\* The names one .rels file adds to referencedMedia.  The patterns look at
\* the Target attribute only.
Collected(records) ==
  UNION { MediaMatch(r.target) \cup RelativeMatch(r.target) : r \in records }

\* getReferencedMedia reads one .rels file (lines 17-31)
ScanRels(f) ==
  /\ cleanPc = "scan"
  /\ f \in relsLeft
  /\ referencedMedia' = referencedMedia \cup Collected(relsText[f])
  /\ relsLeft' = relsLeft \ {f}
  /\ UNCHANGED <<zipFiles, relsText, zipBefore, mediaLeft, orphanedFiles, cleanPc,
                 cleanResult>>
  /\ UNCHANGED outsideClean

\* getReferencedMedia returns; allMedia = zip.file(/^ppt\/media\//)
ListMedia ==
  /\ cleanPc = "scan"
  /\ relsLeft = {}
  /\ mediaLeft' = { f \in zipFiles : IsMediaName(f) }
  /\ cleanPc' = "remove"
  /\ UNCHANGED <<zipFiles, relsText, zipBefore, referencedMedia, relsLeft,
                 orphanedFiles, cleanResult>>
  /\ UNCHANGED outsideClean

\* One iteration of the loop over allMedia (lines 46-51)
VisitMedia(f) ==
  /\ cleanPc = "remove"
  /\ f \in mediaLeft
  /\ mediaLeft' = mediaLeft \ {f}
  /\ IF f \notin referencedMedia
     THEN /\ orphanedFiles' = Append(orphanedFiles, f)
          /\ zipFiles' = zipFiles \ {f}
     ELSE UNCHANGED <<orphanedFiles, zipFiles>>
  /\ UNCHANGED <<relsText, zipBefore, referencedMedia, relsLeft, cleanPc, cleanResult>>
  /\ UNCHANGED outsideClean

\* The return statement (lines 53-58)
ReturnCleanup ==
  /\ cleanPc = "remove"
  /\ mediaLeft = {}
  /\ cleanResult' = [orphanedFiles |-> orphanedFiles,
                     removedCount |-> Len(orphanedFiles)]
  /\ cleanPc' = "done"
  /\ UNCHANGED <<zipFiles, relsText, zipBefore, referencedMedia, relsLeft, mediaLeft,
                 orphanedFiles>>
  /\ UNCHANGED outsideClean

NoCleanup == [orphanedFiles |-> <<>>, removedCount |-> 0]

CleanIdle ==
  /\ zipFiles = {}
  /\ relsText = <<>>
  /\ zipBefore = {}
  /\ referencedMedia = {}
  /\ relsLeft = {}
  /\ mediaLeft = {}
  /\ orphanedFiles = <<>>
  /\ cleanPc = "idle"
  /\ cleanResult = NoCleanup

\* cleanOrphanedMedia(zip) has been called on a presentation with one slide
CleanInit ==
  /\ \E media \in SUBSET {Media1, Media2} :
       zipFiles = {Slide1, SlideRels, PresRels} \cup media
  /\ \E sr \in SUBSET SlideRecords, pr \in SUBSET PresRecords :
       relsText = (SlideRels :> sr) @@ (PresRels :> pr)
  /\ zipBefore = zipFiles
  /\ referencedMedia = {}
  /\ relsLeft = { f \in zipFiles : IsRelsName(f) }
  /\ mediaLeft = {}
  /\ orphanedFiles = <<>>
  /\ cleanPc = "scan"
  /\ cleanResult = NoCleanup

\* The parts added last are idle
LaterIdle ==
  /\ ControlsIdle
  /\ LoopIdle
  /\ PaneIdle
  /\ ShapeIdle
  /\ FileIdle
  /\ RefreshIdle
  /\ DecodeIdle
  /\ SecureIdle
  /\ ExporterIdle

\* ------------------------------------------------------------ specifications
Init == StoreInit /\ ExportIdle /\ DragIdle /\ ApplyIdle /\ FrameIdle /\ ViewIdle /\ BatchIdle /\ CleanIdle /\ LaterIdle

Next ==
  \/ \E a \in AddInputs, eager \in BOOLEAN :
       AddRegion(a[1], a[2], a[3], a[4], a[5], a[6], a[7], eager)
  \/ \E id \in RemoveInputs, eager \in BOOLEAN : RemoveRegion(id, eager)
  \/ \E eager \in BOOLEAN : ClearRegions(eager)
  \/ \E eager \in BOOLEAN : Undo(eager)
  \/ \E eager \in BOOLEAN : Redo(eager)
  \/ Render

Spec == Init /\ [][Next]_vars

InitExport == StoreInit /\ ExportInit /\ DragIdle /\ ApplyIdle /\ FrameIdle /\ ViewIdle /\ BatchIdle /\ CleanIdle /\ LaterIdle

NextExport ==
  \/ LoadAndDraw
  \/ LoadFails
  \/ ProcessRegion
  \/ ExportPng

SpecExport == InitExport /\ [][NextExport]_vars

\* The store hook mounted under StrictMode, as in the dialog
InitStrict == StoreInit /\ ExportIdle /\ DragIdle /\ ApplyIdle /\ FrameIdle /\ ViewIdle /\ BatchIdle /\ CleanIdle /\ LaterIdle

NextStrict ==
  \/ \E a \in AddInputs, eager \in BOOLEAN :
       StrictBound /\ AddRegion(a[1], a[2], a[3], a[4], a[5], a[6], a[7], eager)
  \/ \E id \in RemoveInputs, eager \in BOOLEAN : StrictBound /\ RemoveRegion(id, eager)
  \/ \E eager \in BOOLEAN : StrictBound /\ Undo(eager)
  \/ \E eager \in BOOLEAN : StrictBound /\ Redo(eager)
  \/ \E again \in BOOLEAN : StrictRender(again)

SpecStrict == InitStrict /\ [][NextStrict]_vars

\* The pointer events of a drawing session
InitDrag == StoreInit /\ ExportIdle /\ DragIdle /\ ApplyIdle /\ FrameIdle /\ ViewIdle /\ BatchIdle /\ CleanIdle /\ LaterIdle

NextDrag ==
  \/ \E c \in DragPoints : MouseDown(c)
  \/ \E c \in DragPoints : MouseMove(c)
  \/ \E c \in DragPoints, eager \in BOOLEAN : MouseUp(c, eager)
  \/ \E c \in LeavePoints, eager \in BOOLEAN : MouseLeave(c, eager)
  \/ RenderEditor

SpecDrag == InitDrag /\ [][NextDrag]_vars

\* The preview of an editing session
InitFrame == StoreInit /\ ExportIdle /\ DragIdle /\ ApplyIdle /\ FrameIdle /\ ViewIdle /\ BatchIdle /\ CleanIdle /\ LaterIdle

NextFrame ==
  \/ ImageLoaded
  \/ Commit
  \/ \E n \in 1..2 : RunEffects(n)
  \/ \E f \in frames : Frame(f)

SpecFrame == InitFrame /\ [][NextFrame]_vars

\* Zooming, scrolling and changing the source image of an editor
InitView == StoreInit /\ ExportIdle /\ DragIdle /\ ApplyIdle /\ FrameIdle /\ ViewIdle /\ BatchIdle /\ CleanIdle /\ LaterIdle

NextView ==
  \/ \E b \in Sources : ImageChange(b)
  \/ DecodeOk
  \/ DecodeFail
  \/ \E level \in ZoomLevels, point \in ViewPoints : ZoomAt(level, point)
  \/ ZoomIn
  \/ ZoomOut
  \/ ZoomReset
  \/ \E offset \in ScrollInputs : Scroll(offset)
  \/ ResizeEffect

SpecView == InitView /\ [][NextView]_vars

\* An editing session that ends with Apply
InitApply == StoreInit /\ ExportIdle /\ DragIdle /\ ApplyInit /\ FrameIdle /\ ViewIdle /\ BatchIdle /\ CleanIdle /\ LaterIdle

NextApply ==
  \/ \E a \in AddInputs, eager \in BOOLEAN : EditAdd(a, eager)
  \/ \E eager \in BOOLEAN : EditUndo(eager)
  \/ sessionOpen /\ RenderEditor
  \/ ApplyInline
  \/ ApplyDialog
  \/ CancelDialog
  \/ \E control \in BackControls : CancelInline(control)
  \/ ProcessImageOk
  \/ ProcessImageFails
  \/ ReplaceImageShapeOk
  \/ ReplaceImageShapeFails

SpecApply == InitApply /\ [][NextApply]_vars

\* Drawing in the inline editor, whose Apply button can be activated at any
\* time and whose selector is disabled while the apply runs
InitEditor == StoreInit /\ ExportIdle /\ DragIdle /\ ApplyIdle /\ FrameIdle /\ ViewIdle /\ BatchIdle /\ CleanIdle /\ LaterIdle

NextEditor ==
  \/ \E c \in EditorPoints : MouseDown(c)
  \/ \E c \in EditorPoints : MouseMove(c)
  \/ \E c \in EditorPoints, eager \in BOOLEAN : MouseUp(c, eager)
  \/ \E c \in EditorPoints, eager \in BOOLEAN : MouseLeave(c, eager)
  \/ RenderEditor
  \/ ApplyInline
  \/ ProcessImageOk
  \/ ProcessImageFails
  \/ ReplaceImageShapeOk
  \/ ReplaceImageShapeFails

SpecEditor == InitEditor /\ [][NextEditor]_vars

\* An editing session from the mount of the editor on: the image decodes at
\* some point, and the user can use the controls before it has
InitSession == StoreInit /\ ExportIdle /\ DragIdle /\ ApplyIdle /\ FrameIdle /\ ViewIdle /\ BatchIdle /\ CleanIdle /\ LaterIdle

NextSession ==
  \/ ImageLoaded
  \/ Commit
  \/ \E n \in 1..2 : RunEffects(n)
  \/ \E f \in frames : Frame(f)
  \/ \E kind \in {"down", "move", "up", "leave"}, c \in EditorPoints, eager \in BOOLEAN :
       SelectorEvent(kind, c, eager)
  \/ \E eager \in BOOLEAN : ApplyFullImage(eager)
  \/ RenderSession

SpecSession == InitSession /\ [][NextSession]_vars

\* An editing session in which the user moves the block-size slider, adds
\* regions and applies
InitControls ==
  /\ StoreInit /\ ExportIdle /\ DragIdle /\ ApplyInit /\ FrameIdle /\ ViewIdle
  /\ BatchIdle /\ CleanIdle /\ LaterIdle

\* The rectangles the user drags
ControlRects == { <<0, 0, Px(2), Px(3)>>, <<Px(1), Px(1), Px(3), Px(2)>> }

NextControls ==
  \/ \E position \in SliderPositions : OnBlockSizeChange(position)
  \/ \E rect \in ControlRects, eager \in BOOLEAN : HandleRegionComplete(rect, eager)
  \/ sessionOpen /\ RenderEditor
  \/ ApplyInline
  \/ ApplyDialog
  \/ ProcessImageOk
  \/ ProcessImageFails
  \/ ReplaceImageShapeOk
  \/ ReplaceImageShapeFails

SpecControls == InitControls /\ [][NextControls]_vars

\* One call of applyPixelation, from the export or from the preview
InitLoop ==
  /\ StoreInit /\ ExportIdle /\ DragIdle /\ ApplyIdle /\ FrameIdle /\ ViewIdle
  /\ BatchIdle /\ CleanIdle /\ LaterIdle

NextLoop ==
  \/ \E image \in PreviewImages, size \in LoopBlockSizes :
       \E r \in LoopRects(image) : PixelateExport(image, r, size)
  \/ \E image \in PreviewImages, size \in LoopBlockSizes, canvasWidth \in PreviewWidths :
       \E r \in LoopRects(image) : PixelatePreview(image, r, size, canvasWidth)
  \/ LoopStep

SpecLoop == InitLoop /\ [][NextLoop]_vars

\* The loops are synchronous code: once entered they run on
SpecLoopFair == SpecLoop /\ WF_vars(LoopStep)

\* The task pane: the user picks images and works in the dialog
InitPane ==
  /\ StoreInit /\ ExportIdle /\ DragIdle /\ FrameIdle /\ ViewIdle
  /\ BatchIdle /\ CleanIdle /\ LaterIdle
  /\ flow = "dialog"
  /\ sessionOpen = FALSE
  /\ applying = FALSE
  /\ error = ""
  /\ applyPc = "idle"
  /\ applyLog = NoApply
  /\ sent = NoSent
  /\ cancelled = FALSE
  /\ document = "original"

NextPane ==
  \/ \E image \in PaneImages, accepted \in BOOLEAN : HandleSelectImage(image, accepted)
  \/ DialogMount
  \/ DialogApplyMessage
  \/ DialogCloses
  \/ ProcessImageOk
  \/ ProcessImageFails
  \/ ReplaceImageShapeOk
  \/ ReplaceImageShapeFails

SpecPane == InitPane /\ [][NextPane]_vars

\* One call of replaceImageShape
InitShape ==
  /\ StoreInit /\ ExportIdle /\ DragIdle /\ ApplyIdle /\ FrameIdle /\ ViewIdle
  /\ BatchIdle /\ CleanIdle /\ ControlsIdle /\ LoopIdle /\ PaneIdle /\ ShapeInit
  /\ FileIdle /\ RefreshIdle /\ DecodeIdle /\ SecureIdle /\ ExporterIdle

NextShape ==
  \/ StartReplace
  \/ \E n \in 0..3 : Sync(n)

SpecShape == InitShape /\ [][NextShape]_vars

\* One call of getFileAsync
InitFile ==
  /\ StoreInit /\ ExportIdle /\ DragIdle /\ ApplyIdle /\ FrameIdle /\ ViewIdle
  /\ BatchIdle /\ CleanIdle /\ LaterIdle

NextFile ==
  \/ GetFileAsync
  \/ \E ok \in BOOLEAN, count \in 0..MaxSlices : FileCallback(ok, count)
  \/ \E ok \in BOOLEAN, data \in SliceData : SliceCallback(ok, data)

SpecFile == InitFile /\ [][NextFile]_vars

\* Calls of refresh that overlap
InitRefresh ==
  /\ StoreInit /\ ExportIdle /\ DragIdle /\ ApplyIdle /\ FrameIdle /\ ViewIdle
  /\ BatchIdle /\ CleanIdle /\ ControlsIdle /\ LoopIdle /\ PaneIdle /\ ShapeIdle
  /\ FileIdle /\ RefreshInit /\ DecodeIdle /\ SecureIdle /\ ExporterIdle

NextRefresh ==
  \/ Refresh
  \/ \E n \in 1..MaxRefresh, slideImages \in SlideLists : RefreshResolves(n, slideImages)
  \/ \E n \in 1..MaxRefresh : RefreshRejects(n)

SpecRefresh == InitRefresh /\ [][NextRefresh]_vars

\* The load effect with its decodes in flight
InitDecode ==
  /\ StoreInit /\ ExportIdle /\ DragIdle /\ ApplyIdle /\ FrameIdle /\ ViewIdle
  /\ BatchIdle /\ CleanIdle /\ LaterIdle

NextDecode ==
  \/ \E b \in Sources \cup {0} : SourceChange(b)
  \/ \E decode \in decodes : DecodeResolves(decode)
  \/ \E decode \in decodes : DecodeRejects(decode)

SpecDecode == InitDecode /\ [][NextDecode]_vars

\* One call of secureExport
InitSecure ==
  /\ StoreInit /\ ExportIdle /\ DragIdle /\ ApplyIdle /\ FrameIdle /\ ViewIdle
  /\ BatchIdle /\ CleanIdle /\ LaterIdle

NextSecure ==
  \/ \E file \in SecureFiles : SecureExportCall(file)
  \/ \E ok \in BOOLEAN : SecureAwaitSettles(ok)

SpecSecure == InitSecure /\ [][NextSecure]_vars

\* The busy flags: applies from the inline editor and from the dialog, and
\* exports.  Every awaited promise settles: processImage ends in the
\* onload or onerror of its image, replaceImageShape and secureExport in
\* the return or the throw of their last await.
InitBusy == InitApply

\* The one region drawn before an apply
BusyInputs == { a \in AddInputs : a[1] = 0 /\ a[5] = "solid" }

NextBusy ==
  \/ \E a \in BusyInputs, eager \in BOOLEAN : EditAdd(a, eager)
  \/ sessionOpen /\ RenderEditor
  \/ ApplyInline
  \/ ApplyDialog
  \/ CancelDialog
  \/ \E control \in BackControls : CancelInline(control)
  \/ ProcessImageOk
  \/ ProcessImageFails
  \/ ReplaceImageShapeOk
  \/ ReplaceImageShapeFails
  \/ \E pptxName \in BOOLEAN : ProcessFile(pptxName)
  \/ \E run \in 1..MaxExports, ok \in BOOLEAN : ExportSettles(run, ok)

SpecBusy == InitBusy /\ [][NextBusy]_vars

SpecBusyFair ==
  /\ SpecBusy
  /\ WF_vars(ProcessImageOk \/ ProcessImageFails)
  /\ WF_vars(ReplaceImageShapeOk \/ ReplaceImageShapeFails)
  /\ WF_vars(\E run \in 1..MaxExports, ok \in BOOLEAN : ExportSettles(run, ok))

\* Handlers of the store called without waiting for the hook to render
InitBatch ==
  /\ StoreInit /\ ExportIdle /\ DragIdle /\ ApplyIdle /\ FrameIdle /\ ViewIdle
  /\ BatchIdle /\ CleanIdle /\ LaterIdle

NextBatch ==
  \/ \E a \in BatchAddInputs, eager \in BOOLEAN : BatchAdd(a, eager)
  \/ \E id \in BatchRemoveInputs, eager \in BOOLEAN : BatchRemove(id, eager)
  \/ \E eager \in BOOLEAN : BatchClear(eager)
  \/ \E eager \in BOOLEAN : BatchUndo(eager)
  \/ \E eager \in BOOLEAN : BatchRedo(eager)
  \/ BatchRender

SpecBatch == InitBatch /\ [][NextBatch]_vars

\* Removing the orphaned media of a presentation
InitClean ==
  /\ StoreInit /\ ExportIdle /\ DragIdle /\ ApplyIdle /\ FrameIdle /\ ViewIdle
  /\ BatchIdle /\ CleanInit /\ LaterIdle

NextClean ==
  \/ \E f \in {SlideRels, PresRels} : ScanRels(f)
  \/ ListMedia
  \/ \E f \in {Media1, Media2} : VisitMedia(f)
  \/ ReturnCleanup

SpecClean == InitClean /\ [][NextClean]_vars

\* =================================================== region store: properties
Settled == queue = <<>>

\* The store after a handler has returned and the hook has rendered
Settle(cur, s) ==
  LET r == ProcessQueue(s.queue, cur, s.refs)
  IN [regions |-> r.state, undoStack |-> r.refs.undoStack, redoStack |-> r.refs.redoStack]

RECURSIVE UndoAll(_, _)
\* undo, called until the undo stack is exhausted
UndoAll(st, eager) ==
  IF st.undoStack = <<>> THEN st
  ELSE UndoAll(Settle(st.regions,
                      undo(eager, <<>>, st.regions, Refs(st.undoStack, st.redoStack))),
               eager)

RECURSIVE RedoAll(_, _)
\* redo, called until the redo stack is exhausted
RedoAll(st, eager) ==
  IF st.redoStack = <<>> THEN st
  ELSE RedoAll(Settle(st.regions,
                      redo(eager, <<>>, st.regions, Refs(st.undoStack, st.redoStack))),
               eager)

Current == [regions |-> regions, undoStack |-> undoStack, redoStack |-> redoStack]

\* C1: after any sequence of addRegion / removeRegion / clearRegions from the
\* empty store, undo until exhausted gives the empty collection, and redo
\* until exhausted then gives back the collection the sequence ended with.
C1_UndoAllRedoAllRoundTrip ==
  (Settled /\ onlyMutations) =>
    \A eager \in BOOLEAN :
      LET u == UndoAll(Current, eager)
      IN /\ u.regions = <<>>
         /\ RedoAll(u, eager).regions = regions

\* C2: once an accepted addRegion or a removeRegion has settled, the undo
\* stack is the old undo stack with the pre-mutation collection pushed on
\* it, and the redo stack is empty.
C2_MutationPushesPreSnapshot ==
  (Settled /\ ( \/ (call.op = "addRegion" /\ call.ret # 0)
                \/ call.op = "removeRegion" )) =>
    /\ undoStack = Append(call.pre.undoStack, call.pre.regions)
    /\ redoStack = <<>>

\* An addRegion settled that started from a non-empty collection and a
\* non-empty redo stack
C2_Witness ==
  /\ Settled
  /\ call.op = "addRegion"
  /\ call.ret # 0
  /\ call.pre.regions # <<>>
  /\ call.pre.redoStack # <<>>

\* C3: undo with a non-empty undo stack pops its top, pushes the current
\* collection on the redo stack and installs the popped snapshot; redo is
\* the mirror; with the respective stack empty nothing changes.
C3_UndoRedoStep ==
  /\ (Settled /\ call.op = "undo") =>
       IF call.pre.undoStack # <<>>
       THEN /\ regions = Last(call.pre.undoStack)
            /\ undoStack = Front(call.pre.undoStack)
            /\ redoStack = Append(call.pre.redoStack, call.pre.regions)
       ELSE /\ regions = call.pre.regions
            /\ undoStack = call.pre.undoStack
            /\ redoStack = call.pre.redoStack
  /\ (Settled /\ call.op = "redo") =>
       IF call.pre.redoStack # <<>>
       THEN /\ regions = Last(call.pre.redoStack)
            /\ redoStack = Front(call.pre.redoStack)
            /\ undoStack = Append(call.pre.undoStack, call.pre.regions)
       ELSE /\ regions = call.pre.regions
            /\ undoStack = call.pre.undoStack
            /\ redoStack = call.pre.redoStack

\* An undo settled that popped a snapshot and pushed a non-empty collection
\* on a non-empty redo stack
C3_Witness ==
  /\ Settled
  /\ call.op = "undo"
  /\ call.pre.undoStack # <<>>
  /\ call.pre.redoStack # <<>>
  /\ call.pre.regions # <<>>
  /\ Len(redoStack) >= 2

\* C4: after clearRegions has settled the collection and both stacks are
\* empty, and canUndo and canRedo are false.
C4_ClearDiscardsHistory ==
  (Settled /\ call.op = "clearRegions") =>
    /\ regions = <<>>
    /\ undoStack = <<>>
    /\ redoStack = <<>>
    /\ ~canUndo
    /\ ~canRedo

\* C5: addRegion whose normalized width or height is below 2 px returns
\* nothing and leaves the collection, both stacks, canUndo and canRedo as
\* they were; no state update is requested.
C5_SmallRegionRejected ==
  (/\ call.op = "addRegion"
   /\ \/ Abs(call.args.width) < Px(2)
      \/ Abs(call.args.height) < Px(2)) =>
    /\ call.ret = 0
    /\ queue = <<>>
    /\ regions = call.pre.regions
    /\ undoStack = call.pre.undoStack
    /\ redoStack = call.pre.redoStack
    /\ canUndo = call.pre.canUndo
    /\ canRedo = call.pre.canRedo

\* A rejected addRegion with only one side too small, on a store that has
\* regions and history
C5_Witness ==
  /\ call.op = "addRegion"
  /\ Abs(call.args.width) < Px(2)
  /\ Abs(call.args.height) >= Px(2)
  /\ call.ret = 0
  /\ regions # <<>>
  /\ canUndo
  /\ redoStack # <<>>

\* C6: for |w| >= 2 px and |h| >= 2 px, addRegion appends one region with
\* non-negative width and height whose box is the bounding box of the
\* corners (x, y) and (x + w, y + h), and returns the id of that region.
C6_AddNormalizesToBoundingBox ==
  (/\ Settled
   /\ call.op = "addRegion"
   /\ Abs(call.args.width) >= Px(2)
   /\ Abs(call.args.height) >= Px(2)) =>
    /\ Len(regions) = Len(call.pre.regions) + 1
    /\ Front(regions) = call.pre.regions
    /\ LET r == Last(regions)
           a == call.args
       IN /\ r.width >= 0
          /\ r.height >= 0
          /\ r.x = Min(a.x, a.x + a.width)
          /\ r.x + r.width = Max(a.x, a.x + a.width)
          /\ r.y = Min(a.y, a.y + a.height)
          /\ r.y + r.height = Max(a.y, a.y + a.height)
          /\ call.ret = r.id

\* An accepted addRegion with a negative width and a fractional anchor,
\* appended behind an existing region
C6_Witness ==
  /\ Settled
  /\ call.op = "addRegion"
  /\ call.ret # 0
  /\ call.args.width < 0
  /\ call.args.height > 0
  /\ call.pre.regions # <<>>
  /\ Last(regions).x = call.args.x + call.args.width

\* C24: one user action records one snapshot, also when React invokes the
\* updater of an update more than once: an accepted addRegion and a
\* removeRegion make the undo stack one deeper, undo and redo move one
\* snapshot from one stack to the other.
C24_OneSnapshotPerAction ==
  Settled =>
    /\ ( \/ (call.op = "addRegion" /\ call.ret # 0)
         \/ call.op = "removeRegion" ) =>
         Len(undoStack) = Len(call.pre.undoStack) + 1
    /\ (call.op = "undo" /\ call.pre.undoStack # <<>>) =>
         /\ Len(undoStack) = Len(call.pre.undoStack) - 1
         /\ Len(redoStack) = Len(call.pre.redoStack) + 1
    /\ (call.op = "redo" /\ call.pre.redoStack # <<>>) =>
         /\ Len(redoStack) = Len(call.pre.redoStack) - 1
         /\ Len(undoStack) = Len(call.pre.undoStack) + 1

Footprint(region) ==
  { p \in Pixels : /\ p[1] >= Round(region.x)
                   /\ p[1] < Round(region.x) + Round(region.width)
                   /\ p[2] >= Round(region.y)
                   /\ p[2] < Round(region.y) + Round(region.height) }

RECURSIVE ApplyFirst(_, _, _)
\* The canvas after the first k regions of rs have been applied to cv
ApplyFirst(cv, rs, k) ==
  IF k = 0 THEN cv ELSE ApplyRegion(ApplyFirst(cv, rs, k - 1), rs[k])

PixelAt(data, p) == data[p[2] * SurfaceW + p[1] + 1]

SetMax(S) == CHOOSE m \in S : \A n \in S : n <= m

\* The region applied by a step of the loop of processImage
AppliesRegion == pc = "loop" /\ idx < Len(jobRegions) /\ idx' = idx + 1

\* C7: in the exported image, every pixel covered by several regions has
\* the value produced by the last region of the collection that covers it.
C7_LastCoveringRegionWins ==
  pc = "done" =>
    \A p \in Pixels :
      LET K == { k \in 1..Len(jobRegions) : p \in Footprint(jobRegions[k]) }
      IN Cardinality(K) >= 2 =>
           PixelAt(result, p) = ApplyFirst(source.pixels, jobRegions, SetMax(K))[p]

\* C8: a Pixelate region that starts left of or above the surface changes
\* only pixels of region /\ surface.
C8_PixelateClippedLeftTop ==
  [][ (/\ AppliesRegion
       /\ jobRegions[idx + 1].mode = "pixelate"
       /\ \/ Round(jobRegions[idx + 1].x) < 0
          \/ Round(jobRegions[idx + 1].y) < 0)
      => \A p \in Pixels \ Footprint(jobRegions[idx + 1]) : canvas'[p] = canvas[p] ]_vars

\* C9: a region that extends past the right or bottom edge of the surface
\* is applied without error and changes only pixels of region /\ surface.
C9_ClippedRightBottom ==
  [][ (/\ AppliesRegion
       /\ \/ jobRegions[idx + 1].x + jobRegions[idx + 1].width > Px(SurfaceW)
          \/ jobRegions[idx + 1].y + jobRegions[idx + 1].height > Px(SurfaceH))
      => /\ pc' = "loop"
         /\ \A p \in Pixels \ Footprint(jobRegions[idx + 1]) : canvas'[p] = canvas[p] ]_vars

RECURSIVE SumPixels(_, _, _)
\* The sum of channel c of canvas cv over the pixels of S
SumPixels(cv, S, c) ==
  IF S = {} THEN 0
  ELSE LET p == CHOOSE q \in S : TRUE
       IN cv[p][c] + SumPixels(cv, S \ {p}, c)

\* The block of p in the partition of the pixel set F into squares of
\* blockSize pixels anchored at the top-left corner of F
BlockOf(F, blockSize, p) ==
  LET x0 == SetMin({ q[1] : q \in F })
      y0 == SetMin({ q[2] : q \in F })
  IN { q \in F : /\ (q[1] - x0) \div blockSize = (p[1] - x0) \div blockSize
                 /\ (q[2] - y0) \div blockSize = (p[2] - y0) \div blockSize }

\* The mean of channel c over the pixels of S, rounded to the nearest integer
MeanOf(cv, S, c) ==
  LET t == SumPixels(cv, S, c)
      n == Cardinality(S)
  IN CHOOSE m \in 0..255 : 2 * Abs(n * m - t) <= n /\ 2 * (n * m - t) # -n

\* C11: a Pixelate region splits region /\ surface into blocks of blockSize
\* pixels anchored at its top-left corner (edge blocks smaller), and every
\* pixel of a block ends with the rounded mean of the block's original
\* pixels in each of the four channels.
C11_PixelateBlockMeans ==
  [][ (AppliesRegion /\ jobRegions[idx + 1].mode = "pixelate")
      => LET r == jobRegions[idx + 1]
             F == Footprint(r)
         IN \A p \in F : \A c \in 1..4 :
              canvas'[p][c] = MeanOf(canvas, BlockOf(F, r.blockSize, p), c) ]_vars

\* Every block of the region holds one colour on canvas cv
UniformBlocks(cv, r) ==
  \A p \in Footprint(r) : \A q \in BlockOf(Footprint(r), r.blockSize, p) : cv[q] = cv[p]

\* C33: a Pixelate region whose blocks each hold one colour leaves every
\* pixel as it was, and applying a Pixelate region a second time changes
\* nothing more.
C33_PixelateIdempotent ==
  [][ (AppliesRegion /\ jobRegions[idx + 1].mode = "pixelate") =>
        /\ UniformBlocks(canvas, jobRegions[idx + 1]) => canvas' = canvas
        /\ applyPixelation(canvas', jobRegions[idx + 1]) = canvas' ]_vars

\* ================================================== pointer drag: properties
\* The collection and the stacks as the event handled last found them
BeforeStore == [regions |-> ev.pre.store.regions,
                undoStack |-> ev.pre.store.undoStack,
                redoStack |-> ev.pre.store.redoStack]

\* The signed size of the drag the event handled last ended
DraggedWidth == ev.x - ev.pre.drag.startRef.x

DraggedHeight == ev.y - ev.pre.drag.startRef.y

\* C12: the press and every move of a drag change only the in-progress
\* rectangle, never the collection or the history; the release commits
\* exactly one new region if the dragged width and height are both at least
\* 2 px, and nothing otherwise.
C12_DragCommitsOnRelease ==
  /\ ev.kind \in {"down", "move"} => (queue = <<>> /\ Current = BeforeStore)
  /\ (Settled /\ ev.kind = "up" /\ ev.pre.drag.isDrawing) =>
       IF /\ Abs(DraggedWidth) >= Px(MinRegionSize)
          /\ Abs(DraggedHeight) >= Px(MinRegionSize)
       THEN /\ Len(regions) = Len(BeforeStore.regions) + 1
            /\ Front(regions) = BeforeStore.regions
       ELSE Current = BeforeStore

\* The store after a release at the position of the event handled last,
\* from the state that event found
AfterRelease(eager) ==
  LET h == handleMouseUp(ev.pre.drag, <<ev.x, ev.y>>)
  IN IF h.complete
     THEN Settle(BeforeStore.regions,
                 addRegion(h.args.x, h.args.y, h.args.width, h.args.height,
                           DefaultMode, DefaultBlockSize, DefaultFillColor,
                           ev.pre.nextId, eager, <<>>, BeforeStore.regions,
                           Refs(BeforeStore.undoStack, BeforeStore.redoStack)))
     ELSE BeforeStore

\* C13: the pointer leaving the surface during a drag ends the drag, clears
\* the in-progress rectangle and commits or discards the region as a release
\* at that position would; a release or leave that follows without a new
\* press commits nothing.
C13_LeaveIsRelease ==
  /\ (ev.kind = "leave" /\ ev.pre.drag.isDrawing) =>
       /\ ~isDrawing
       /\ drawState = NoDraw
       /\ Settled => \A eager \in BOOLEAN : Current = AfterRelease(eager)
  /\ (ev.kind \in {"up", "leave"} /\ ~ev.pre.drag.isDrawing) =>
       /\ queue = <<>>
       /\ Current = BeforeStore
       /\ Drag = ev.pre.drag

\* A release that follows a leave which had committed a region: the release
\* found no drag in progress
C13_Witness ==
  /\ ev.kind = "up"
  /\ ev.pre.kind = "leave"
  /\ ev.pre.complete
  /\ ~ev.pre.drag.isDrawing
  /\ regions # <<>>

\* C23: every region of the collection has non-negative x, y, width and
\* height and a positive area.
C23_RegionsFiniteNonNegative ==
  \A i \in 1..Len(regions) :
    /\ regions[i].x >= 0
    /\ regions[i].y >= 0
    /\ regions[i].width >= 0
    /\ regions[i].height >= 0
    /\ regions[i].width * regions[i].height > 0

\* C29: the in-progress rectangle is there exactly while a drag is in
\* progress.  A press with the selector enabled sets it at the pressed point
\* with no extent, a move during the drag stretches it from the start point
\* to the pointer, a release or a leave clears it; a move without a drag
\* leaves it null, and a press while the selector is disabled changes
\* nothing of the drag.
C29_DrawStateWhileDragging ==
  /\ [](drawState.active <=> isDrawing)
  /\ [][ ev' # ev =>
           /\ (ev'.kind = "down" /\ ~Disabled) =>
                (isDrawing' /\ drawState' = Rect(ev'.x, ev'.y, 0, 0))
           /\ (ev'.kind = "down" /\ Disabled) =>
                UNCHANGED <<isDrawing, startRef, drawState>>
           /\ (ev'.kind = "move" /\ isDrawing) =>
                drawState' = Rect(startRef.x, startRef.y,
                                  ev'.x - startRef.x, ev'.y - startRef.y)
           /\ (ev'.kind = "move" /\ ~isDrawing) => drawState' = NoDraw
           /\ ev'.kind \in {"up", "leave"} => (~isDrawing' /\ drawState' = NoDraw) ]_vars

\* The press handled last came while the apply was running and started no
\* drag
C29_Witness ==
  /\ ev.kind = "down"
  /\ ~ev.pre.drag.isDrawing
  /\ ~isDrawing
  /\ Disabled

\* ============================================ preview scheduling: properties
\* C14: at most one render is scheduled and not yet executed, a render
\* requested while one is pending replaces it, and a render that executes
\* draws the session state current at that moment.
C14_OnePendingRender ==
  /\ Cardinality(frames) <= 1
  /\ \A f \in frames : f.id = animFrameRef
  /\ painted.version = painted.current

\* A render requested before the latest state change has executed and drawn
\* the latest state, and nothing is pending
C14_Witness ==
  /\ painted.id # 0
  /\ painted.captured < painted.current
  /\ painted.version = stateSeq
  /\ frames = {}
  /\ frameSeq > 3

\* C30: until the image has decoded no frame has been requested or run, the
\* collection is empty with no update pending and no history, and no drag
\* is in progress.
C30_NothingBeforeDecode ==
  ~imageReady =>
    /\ frames = {}
    /\ animFrameRef = 0
    /\ frameSeq = 1
    /\ painted = NoPaint
    /\ regions = <<>>
    /\ queue = <<>>
    /\ undoStack = <<>>
    /\ ~isDrawing
    /\ drawState = NoDraw

\* Before the decode the editor has rendered, its effects have called
\* render, and the user has pressed "apply to full image"
C30_Witness ==
  /\ ~imageReady
  /\ stateSeq > 0
  /\ ~effectDue
  /\ call.op = "handleApplyFullImage"

\* ============================================ zoom and loading: properties
\* C15: after any sequence of zoomAt (with any requested level), zoomIn,
\* zoomOut, zoomReset and source-image changes the zoom level is within
\* [0.5, 5.0].
C15_ZoomWithinLimits == 2 * zoom >= ZoomUnit /\ zoom <= 5 * ZoomUnit

\* zoomAt was asked for a level above the upper limit while zoomed out
C15_Witness ==
  /\ zoomCall.op = "zoomAt"
  /\ zoomCall.level > 5 * ZoomUnit
  /\ zoom = 5 * ZoomUnit
  /\ resizeDue = "zoomAt"

\* The resize effect applies the anchor zoomAt has just captured
AppliesAnchor == resizeDue = "zoomAt" /\ zoomAnchor.set /\ imageSize.set /\ resizeDue' = "none"

\* C16: after zoomAt at P and the resize that follows it, the scroll offset
\* puts the buffer point at the captured fraction within one pixel of P,
\* also at levels where the buffer is smaller than the viewport.
C16_AnchorStaysUnderPointer ==
  [][ AppliesAnchor =>
        /\ Abs(zoomAnchor.absX * canvasW'
               - (scrollLeft' + zoomAnchor.containerX) * zoomAnchor.canvasW)
             <= zoomAnchor.canvasW
        /\ Abs(zoomAnchor.absY * canvasH'
               - (scrollTop' + zoomAnchor.containerY) * zoomAnchor.canvasH)
             <= zoomAnchor.canvasH ]_vars

\* A resize that moves the scroll offsets by the layout alone: no anchor is
\* applied
PlainResize ==
  /\ scrollLeft' = ClampScroll(scrollLeft, canvasW', ViewW)
  /\ scrollTop' = ClampScroll(scrollTop, canvasH', ViewH)

\* C26: zoomReset sets the zoom level to 1.0 and clears the anchor, and the
\* resize that follows it applies no anchor of an earlier zoomAt.
C26_ResetClearsAnchor ==
  [][ /\ ZoomReset => (zoom' = ZoomOne /\ ~zoomAnchor'.set)
      /\ (resizeDue = "zoomReset" /\ resizeDue' = "none") => PlainResize ]_vars

\* C27: a zoomAt that does not change the zoom level leaves no anchor
\* stored, and the resize that follows a zoomIn or a zoomOut applies no
\* anchor.
C27_NoStaleAnchor ==
  [][ /\ ( /\ \E level \in ZoomLevels, point \in ViewPoints : ZoomAt(level, point)
           /\ zoom' = zoom ) => ~zoomAnchor'.set
      /\ (resizeDue \in {"zoomIn", "zoomOut"} /\ resizeDue' = "none") => PlainResize ]_vars

\* C28: when the source image changes the view state is back at its
\* defaults once the change has been processed: zoom 1.0, scroll offset
\* (0, 0), no in-progress rectangle.
C28_ImageChangeResetsView ==
  [][ ( \/ (base64' # base64 /\ resizeDue' = "none")
        \/ (resizeDue = "image" /\ loadPc = "loading" /\ resizeDue' = "none") ) =>
        /\ zoom' = ZoomOne
        /\ scrollLeft' = 0
        /\ scrollTop' = 0
        /\ drawState' = NoDraw ]_vars

\* C18: when the bytes of the source image do not decode, the session shows
\* an error and does not stay in the loading state.
C18_DecodeFailureSurfaced == loadPc = "failed" => Shows = "error"

\* ======================================================= apply: properties
\* C17: when processImage or replaceImageShape fails after Apply, the
\* failure is shown and the session's collection and undo/redo history are
\* still there for a retry, in the inline editor and in the dialog.
C17_FailedApplyKeepsSession ==
  [][ (applyPc # "idle" /\ applyLog'.outcome = "failed") =>
        /\ error' # ""
        /\ ~applying'
        /\ sessionOpen'
        /\ regions' = applyLog.regions
        /\ undoStack' = applyLog.undoStack
        /\ redoStack' = applyLog.redoStack ]_vars

C22_CancelCommitsNothing ==
  [][ cancelled =>
        /\ applyPc' # applyPc => applyPc' \notin {"processImage", "replaceImageShape"}
        /\ document' = document ]_vars

\* ================================================ effect controls: properties
BlockSizesOf(rs) == { rs[i].blockSize : i \in 1..Len(rs) }

\* C31: every region of the collection, every region of an apply-regions
\* message and every region processImage is given has a block size from 4
\* to 50.
C31_BlockSizeInRange ==
  /\ BlockSizesOf(regions) \subseteq MinBlockSize..MaxBlockSize
  /\ BlockSizesOf(sent.message.regions) \subseteq MinBlockSize..MaxBlockSize
  /\ applyPc = "processImage" =>
       BlockSizesOf(applyLog.regions) \subseteq MinBlockSize..MaxBlockSize

\* processImage has been given, through the message of the dialog, a region
\* with the smallest block size and one with another block size
C31_Witness ==
  /\ flow = "dialog"
  /\ applyPc = "processImage"
  /\ sent.message.type = "apply-regions"
  /\ MinBlockSize \in BlockSizesOf(applyLog.regions)
  /\ Cardinality(BlockSizesOf(applyLog.regions)) = 2

\* ================================================ block loops: properties
\* C32: the block loops of applyPixelation advance by at least one pixel
\* per step, in the export and in the preview, and a call that has entered
\* them leaves them.
C32_PixelationTerminates ==
  /\ [](loopPc = "loop" => loopArgs.blockSize >= 1)
  /\ [][ (loopPc = "loop" /\ loopPc' = "loop") =>
           \/ loopX' >= loopX + 1 /\ loopY' = loopY
           \/ loopY' >= loopY + 1 /\ loopX' = 0 ]_vars
  /\ (loopPc = "loop" ~> loopPc = "done")

\* The preview has run the loops to their end with a block size that
\* scaling alone would have made 0
C32_Witness ==
  /\ loopPc = "done"
  /\ loopArgs.caller = "renderPreview"
  /\ loopArgs.blockSize = 1
  /\ loopY >= loopArgs.ch
  /\ loopY > 0

\* ================================================= task pane: properties
\* C34: the regions of an apply-regions message are applied to the image
\* the dialog that sent them showed.
C34_AppliedToDialogImage == paneApply.target = paneApply.shown

\* ========================================= replaceImageShape: properties
\* The picture to replace is on the slide as it was
HoldsOriginal(shapes) == oldGeometry \in shapes

\* The rectangles filled with the processed image, without border, where
\* the picture was
Replacements(shapes) ==
  { sh \in shapes : /\ sh.kind = "rectangle"
                    /\ sh.fill = "processed"
                    /\ ~sh.line
                    /\ sh.left = oldGeometry.left
                    /\ sh.top = oldGeometry.top
                    /\ sh.width = oldGeometry.width
                    /\ sh.height = oldGeometry.height }

\* C35: the original picture is deleted only from a slide that already
\* holds the finished replacement, so a slide that had the picture holds
\* the picture or the replacement whatever step fails; after success it
\* holds the replacement, where the picture was, and not the picture.
C35_ReplaceBeforeDelete ==
  /\ [](oldGeometry # NoShape =>
          (HoldsOriginal(slideShapes) \/ Replacements(slideShapes) # {}))
  /\ [](replacePc = "done" =>
          /\ ~HoldsOriginal(slideShapes)
          /\ Cardinality(Replacements(slideShapes)) = 1
          /\ \A sh \in slideShapes : sh.id # shapeId)
  /\ [][ (HoldsOriginal(slideShapes) /\ ~HoldsOriginal(slideShapes')) =>
           Replacements(slideShapes) # {} ]_vars

\* The call failed at the last step, after the replacement was made: the
\* slide holds both
C35_Witness ==
  /\ replacePc = "failed"
  /\ HoldsOriginal(slideShapes)
  /\ Replacements(slideShapes) # {}

\* ================================================ getFileAsync: properties
\* C36: the slices are requested one after the other in the order
\* 0 .. sliceCount - 1; the promise is settled once, resolved with the
\* slices in order after the last one or rejected at the first failure; the
\* file is closed once whenever it was obtained, and never otherwise.
C36_SlicesInOrderSettledOnce ==
  /\ \A i \in 1..Len(requested) : requested[i] = i - 1
  /\ Len(requested) <= Max(sliceCount, 0)
  /\ Len(requested) - Len(slices) \in {0, 1}
  /\ filePc = "slice" => Len(requested) = Len(slices) + 1
  /\ filePc = "resolved" => Len(requested) = Len(slices)
  /\ settleCalls = (IF filePc \in {"resolved", "rejected"} THEN 1 ELSE 0)
  /\ closeCalls = (IF filePc \in {"resolved", "rejected"} /\ sliceCount >= 0 THEN 1 ELSE 0)
  /\ filePc = "resolved" =>
       /\ Len(served) = sliceCount
       /\ fileResult = concatUint8Arrays(served)
  /\ filePc = "rejected" => Len(served) < Max(sliceCount, 1)

\* A file of several slices was read to the end
C36_Witness ==
  /\ filePc = "resolved"
  /\ sliceCount > 1
  /\ closeCalls = 1
  /\ fileResult = <<2, 3, 1>>

\* ============================================== useSlideImages: properties
\* C37: once every call of refresh has completed, images and error are
\* those of the call started last, and loading is false only while no call
\* is in flight.
C37_LastStartedRefreshWins ==
  /\ ~loading => inFlight = {}
  /\ (inFlight = {} /\ started > 0) =>
       /\ images = outcomes[started].images
       /\ imageError = outcomes[started].error

StageOrder(file) ==
  <<ProgressOf("reading"), ProgressOf("analyzing"), ProgressOf("scanning")>>
    \o (IF file.stripMetadata THEN <<ProgressOf("stripping")>> ELSE <<>>)
    \o <<ProgressOf("generating"), ProgressOf("done")>>

\* The file starts with the bytes "PK" every ZIP record signature starts
\* with
StartsWithPK(header) == Len(header) >= 2 /\ SubSeq(header, 1, 2) = SubSeq(ZipSignature, 1, 2)

ApplyOp(o, st, eager) ==
  LET refs == Refs(st.undoStack, st.redoStack)
      s == CASE o.op = "addRegion" ->
                  addRegion(o.args.a[1], o.args.a[2], o.args.a[3], o.args.a[4],
                            o.args.a[5], o.args.a[6], o.args.a[7], o.args.id,
                            eager, <<>>, st.regions, refs)
             [] o.op = "removeRegion" ->
                  removeRegion(o.args.id, eager, <<>>, st.regions, refs)
             [] o.op = "clearRegions" -> clearRegions(eager, <<>>, st.regions, refs)
             [] o.op = "undo" -> undo(eager, <<>>, st.regions, refs)
             [] OTHER -> redo(eager, <<>>, st.regions, refs)
  IN Settle(st.regions, s)

RECURSIVE OneAtATime(_, _, _, _)
\* The handlers ops[k..] called one at a time, each after the previous one
\* has settled
OneAtATime(ops, k, st, eager) ==
  IF k > Len(ops) THEN st
  ELSE OneAtATime(ops, k + 1, ApplyOp(ops[k], st, eager[k]), eager)

\* C19: handlers called back to back, before the first one's pending update
\* has been processed, leave the collection and the stacks as the same
\* handlers called one at a time would.
C19_BackToBackAsOneAtATime ==
  Settled =>
    \E eager \in [1..Len(batch.ops) -> BOOLEAN] :
      Current = OneAtATime(batch.ops, 1, batch.start, eager)

\* ============================================== orphaned media: properties
\* The directory of the part a .rels file belongs to: a/b/_rels/c.rels
\* belongs to a/b/c
PartDir(relsName) == SubSeq(relsName, 1, Len(relsName) - 2)

RECURSIVE ResolvePath(_, _, _)
\* The path the segments target[k..] lead to from directory dir
ResolvePath(dir, target, k) ==
  IF k > Len(target) THEN dir
  ELSE IF target[k] = ".." THEN ResolvePath(Front(dir), target, k + 1)
       ELSE ResolvePath(Append(dir, target[k]), target, k + 1)

\* The files of the package the record rec of the .rels file f refers to
TargetOf(f, rec) ==
  IF rec.external THEN {}
  ELSE IF rec.target[1] = "" THEN { ResolvePath(<<>>, rec.target, 2) }
       ELSE { ResolvePath(PartDir(f), rec.target, 1) }

\* The files some relationship record of the zip refers to
ReferencedFiles ==
  UNION { UNION { TargetOf(f, rec) : rec \in relsText[f] } :
            f \in { g \in zipBefore : IsRelsName(g) } }

\* C20: cleanOrphanedMedia removes a file under ppt/media/ if and only if
\* no relationship record of a .rels file refers to it, lists exactly the
\* removed files, and leaves every file outside ppt/media/ in place.
C20_RemovesExactlyOrphans ==
  cleanPc = "done" =>
    /\ \A f \in zipBefore :
         IsMediaName(f) => (f \notin zipFiles <=> f \notin ReferencedFiles)
    /\ { cleanResult.orphanedFiles[i] : i \in 1..Len(cleanResult.orphanedFiles) }
         = zipBefore \ zipFiles
    /\ cleanResult.removedCount = Cardinality(zipBefore \ zipFiles)
    /\ \A f \in zipBefore : ~IsMediaName(f) => f \in zipFiles

====
